---------------------------- MODULE Spec2Model ----------------------------
(***************************************************************************)
(* A model of the Pyro5 daemon (src/Pyro5/server.py): the stream registry  *)
(* (Daemon.streaming_responses with DaemonObject.get_next_stream_item,     *)
(* close_stream, Daemon._streamResponse, _clientDisconnect, _housekeeping, *)
(* shutdown/close), the instance manager (Daemon._getInstance), the object *)
(* registry (Daemon.register, unregister, uriFor) and the handling of      *)
(* connections (Daemon._handshake, Daemon.handleRequest).                  *)
(*                                                                         *)
(* Each subsystem has its own specification over the shared variables:     *)
(*   SpecStream    stream registry, one handler per step                   *)
(*   SpecShutdown  stream registry with shutdown() and dispatches in steps *)
(*   SpecInst      _getInstance, statement by statement, one worker per    *)
(*                 connection                                              *)
(*   SpecReg       register/unregister, one call per step                  *)
(*   SpecRegNat    register/unregister/uriFor, one call per step, with and *)
(*                 without a NAT location                                  *)
(*   SpecRegPar    register/unregister/uriFor, statement by statement, in  *)
(*                 threads                                                 *)
(*   SpecRequest   _handshake and handleRequest, one message per step      *)
(*   SpecStreamPar get_next_stream_item, statement by statement, next to   *)
(*                 the other handlers of the stream registry               *)
(*   SpecCorr      _handshake and handleRequest for messages with and      *)
(*                 without correlation ids, under both server types        *)
(*   SpecProperty  handleRequest for __getattr__ and __setattr__           *)
(*   SpecStreamOneway get_next_stream_item in oneway-call threads, next to *)
(*                 the handlers of the workers                             *)
(***************************************************************************)
EXTENDS Integers, FiniteSets, Sequences, TLC

\* ------------------------------------------------------------------ bounds
MaxConns == 2
MaxStreams == 1
MaxItems == 2
MaxTime == 3
MaxTargets == 2
MaxGenIds == 1
MaxThreads == 2
MaxInstances == 3
MaxBatch == 2
MaxRequests == 3

Conns == 1..MaxConns
StreamIds == 1..MaxStreams
\* Python's None, as a client of a stream entry and as a missing value.
None == 0

VARIABLES
    \* ---- stream registry
    streaming_responses,   \* Daemon.streaming_responses: stream_id -> entry
    nextStreamId,          \* the next str(uuid.uuid4()) of _streamResponse
    now,                   \* time.time()
    connState,             \* each connection: "new", "open" or "closed"
    ITER_STREAM_LINGER,    \* config.ITER_STREAM_LINGER
    ITER_STREAM_LIFETIME,  \* config.ITER_STREAM_LIFETIME
    reply,                 \* what get_next_stream_item last returned or raised
    ended,                 \* stream ids whose iterator raised inside get_next_stream_item
    \* ---- shutdown and dispatches in flight
    mustshutdown,          \* Daemon.__mustshutdown
    shutdownPc,            \* where the thread that called shutdown() is
    inflight,              \* per connection: the iterator its running method will return
    \* ---- instance manager
    pyroInstances,         \* Daemon._pyroInstances: class -> instance
    connInstances,         \* conn.pyroInstances of each connection: class -> instance
    nextInstance,          \* the identity of the next object createInstance makes
    createdBy,             \* per instance made: its class and the connection it was made for
    worker,                \* per connection: where its worker is inside _getInstance
    \* ---- object registry
    objectsById,           \* Daemon.objectsById: object id -> object
    pyroId,                \* the _pyroId attribute of each target
    pyroDaemon,            \* whether each target has the _pyroDaemon attribute
    nextObjId,             \* the next uuid.uuid4() of register
    natLocationStr,        \* Daemon.natLocationStr
    lastCall,              \* the last call on the registry: arguments, result, registry before
    thr,                   \* per thread: the call it makes and where it is in it
    \* ---- handshake and requests
    reqCfg,                \* config.ITER_STREAMING, ONEWAY_THREADED and SERVERTYPE
    handled,               \* the message handled last: what was received, done and sent
    traffic,               \* per connection: the INVOKEs to answer and the RESULTs sent, in order
    nextSeq,               \* the sequence number of the next message a client sends
    correlation_id,        \* per thread: core.current_context.correlation_id
    \* ---- stream calls of concurrent workers
    reader                 \* per connection: where its get_next_stream_item call is

cfgVars == <<ITER_STREAM_LINGER, ITER_STREAM_LIFETIME>>
shutVars == <<mustshutdown, shutdownPc, inflight>>
streamVars == <<streaming_responses, nextStreamId, now, connState, cfgVars, reply, ended,
                shutVars>>

instVars == <<pyroInstances, connInstances, nextInstance, createdBy, worker>>
regVars == <<objectsById, pyroId, pyroDaemon, nextObjId, natLocationStr, lastCall, thr>>
reqVars == <<reqCfg, handled, traffic, nextSeq, correlation_id>>

vars == <<streamVars, instVars, regVars, reqVars, reader>>

\* ---------------------------------------------------------- stream registry

\* The iterators a method hands back: a lazy sequence of n items 0..n-1 that
\* then raises StopIteration, or a generator that raises ValueError after its
\* first item.
Iterators ==
    { [pos |-> 0, n |-> MaxItems, err |-> "StopIteration"],
      [pos |-> 0, n |-> 1, err |-> "ValueError"] }

\* no method is running on the connection
Idle == [pos |-> 0, n |-> 0, err |-> "none"]

\* next(stream) returns an item
HasNext(stream) == stream.pos < stream.n

\* the iterator after next(stream) returned stream.pos
Advance(stream) == [stream EXCEPT !.pos = stream.pos + 1]

\* what get_next_stream_item last returned ("item") or raised ("error"), and
\* whether it found the entry without client (lingering) and re-bound it
NoReply == [kind |-> "none", val |-> "none", resumed |-> FALSE]

Returned(kind, val, resumed) == [kind |-> kind, val |-> val, resumed |-> resumed]

\* a variant of DelStream that leaves the entry in place
DelStream_keep(sr, sid) == sr

\* del self.daemon.streaming_responses[streamId]
DelStream(sr, sid) == [s \in DOMAIN sr \ {sid} |-> sr[s]]

\* a variant of Rebind that keeps the linger timestamp
Rebind_keepLinger(info, c) ==
    IF info.client = None THEN [info EXCEPT !.client = c] ELSE info

\* line 179-181: an entry without client is bound to the calling connection
\* and its linger timestamp is cleared
Rebind(info, c) ==
    IF info.client = None
    THEN [info EXCEPT !.client = c, !.linger_timestamp = 0]
    ELSE info

\* DaemonObject.get_next_stream_item(streamId), called over connection c
\* (core.current_context.client = c)
get_next_stream_item(c, sid) ==
    /\ connState[c] = "open"
    /\ UNCHANGED <<nextStreamId, now, connState, cfgVars, shutVars, instVars, regVars, reqVars, reader>>
    /\ IF sid \notin DOMAIN streaming_responses
       THEN /\ reply' = Returned("error", "item stream terminated", FALSE)
            /\ UNCHANGED <<streaming_responses, ended>>
       ELSE LET info == streaming_responses[sid]
                bound == Rebind(info, c)
            IN  IF HasNext(info.stream)
                THEN /\ streaming_responses' =
                            [streaming_responses EXCEPT
                                ![sid] = [bound EXCEPT !.stream = Advance(info.stream)]]
                     /\ reply' = Returned("item", info.stream.pos,
                                          info.client = None)
                     /\ UNCHANGED ended
                ELSE /\ streaming_responses' = DelStream(streaming_responses, sid)
                     /\ reply' = Returned("error", info.stream.err,
                                          info.client = None)
                     /\ ended' = ended \cup {sid}

\* DaemonObject.close_stream(streamId), called over connection c
close_stream(c, sid) ==
    /\ connState[c] = "open"
    /\ streaming_responses' =
          IF sid \in DOMAIN streaming_responses
          THEN DelStream(streaming_responses, sid)
          ELSE streaming_responses
    /\ UNCHANGED <<nextStreamId, now, connState, cfgVars, reply, ended, shutVars, instVars, regVars, reqVars, reader>>

\* the registry after Daemon._streamResponse(data, client) stored an iterator
StreamRegistered(sr, sid, client, data) ==
    [s \in DOMAIN sr \cup {sid} |->
        IF s = sid
        THEN [client |-> client, timestamp |-> now, linger_timestamp |-> 0, stream |-> data]
        ELSE sr[s]]

\* Daemon._streamResponse(data, client) for a call over connection c whose
\* method returned the iterator data (config.ITER_STREAMING enabled)
_streamResponse(data, c) ==
    /\ connState[c] = "open"
    /\ nextStreamId <= MaxStreams
    /\ streaming_responses' = StreamRegistered(streaming_responses, nextStreamId, c, data)
    /\ nextStreamId' = nextStreamId + 1
    /\ UNCHANGED <<now, connState, cfgVars, reply, ended, shutVars, instVars, regVars, reqVars, reader>>

\* a variant of Disconnected that treats every entry as the connection's own
Disconnected_all(sr, c) ==
    IF ITER_STREAM_LINGER > 0
    THEN [s \in DOMAIN sr |-> [sr[s] EXCEPT !.client = None, !.linger_timestamp = now]]
    ELSE << >>

\* the registry after Daemon._clientDisconnect(conn) went through it
Disconnected(sr, c) ==
    IF ITER_STREAM_LINGER > 0
    THEN [s \in DOMAIN sr |->
            IF sr[s].client = c
            THEN [sr[s] EXCEPT !.client = None, !.linger_timestamp = now]
            ELSE sr[s]]
    ELSE [s \in {t \in DOMAIN sr : sr[t].client # c} |-> sr[s]]

\* the registry when line 536 calls the hook clientDisconnect(conn): the
\* statements of lines 523-535 have run
AtHook(sr, c) == Disconnected(sr, c)

\* Daemon.clientDisconnect(conn): the hook does nothing unless overridden
clientDisconnect(sr, c) == sr

\* Daemon._clientDisconnect(conn)
_clientDisconnect(c) ==
    /\ connState[c] = "open"
    /\ connState' = [connState EXCEPT ![c] = "closed"]
    /\ streaming_responses' = clientDisconnect(AtHook(streaming_responses, c), c)
    /\ UNCHANGED <<nextStreamId, now, cfgVars, reply, ended, shutVars, instVars, regVars, reqVars, reader>>

\* line 551-552: the entry is past its lifetime
LifetimeExpired(info) ==
    /\ ITER_STREAM_LIFETIME > 0
    /\ 0 < ITER_STREAM_LIFETIME
    /\ ITER_STREAM_LIFETIME < now - info.timestamp

\* a variant of LingerExpired that leaves out the test of info[2]
LingerExpired_unbound(info) ==
    /\ ITER_STREAM_LINGER > 0
    /\ now - info.linger_timestamp > ITER_STREAM_LINGER

\* line 558-560: the entry is past its linger time
LingerExpired(info) ==
    /\ ITER_STREAM_LINGER > 0
    /\ info.linger_timestamp # 0
    /\ now - info.linger_timestamp > ITER_STREAM_LINGER

\* the registry after the two passes of Daemon._housekeeping
Swept(sr) ==
    LET afterLifetime == [s \in {t \in DOMAIN sr : ~LifetimeExpired(sr[t])} |-> sr[s]]
    IN  [s \in {t \in DOMAIN afterLifetime : ~LingerExpired(afterLifetime[t])} |->
            afterLifetime[s]]

\* Daemon._housekeeping(); the hook housekeeping is a no-op
_housekeeping ==
    /\ streaming_responses' =
          IF mustshutdown THEN streaming_responses ELSE Swept(streaming_responses)
    /\ UNCHANGED <<nextStreamId, now, connState, cfgVars, reply, ended, shutVars, instVars, regVars, reqVars, reader>>

\* a client connects and passes the handshake
Connect(c) ==
    /\ connState[c] = "new"
    /\ connState' = [connState EXCEPT ![c] = "open"]
    /\ UNCHANGED <<streaming_responses, nextStreamId, now, cfgVars, reply, ended, shutVars, instVars, regVars, reqVars, reader>>

\* time passes
Tick ==
    /\ now < MaxTime
    /\ now' = now + 1
    /\ UNCHANGED <<streaming_responses, nextStreamId, connState, cfgVars, reply, ended, shutVars, instVars, regVars, reqVars, reader>>

\* the worker of the connection is not inside get_next_stream_item
NotReading == [pc |-> "idle", sid |-> None, info |-> None, out |-> NoReply]

InitStream(lingers, lifetimes) ==
    /\ streaming_responses = << >>
    /\ nextStreamId = 1
    /\ now = 1
    /\ connState = [c \in Conns |-> "new"]
    /\ ITER_STREAM_LINGER \in lingers
    /\ ITER_STREAM_LIFETIME \in lifetimes
    /\ reply = NoReply
    /\ ended = {}
    /\ mustshutdown = FALSE
    /\ shutdownPc = "idle"
    /\ inflight = [c \in Conns |-> Idle]
    /\ reader = [c \in Conns |-> NotReading]

NextStream ==
    \/ \E c \in Conns : Connect(c)
    \/ \E c \in Conns, data \in Iterators : _streamResponse(data, c)
    \/ \E c \in Conns, sid \in StreamIds : get_next_stream_item(c, sid)
    \/ \E c \in Conns, sid \in StreamIds : close_stream(c, sid)
    \/ \E c \in Conns : _clientDisconnect(c)
    \/ _housekeeping
    \/ Tick

\* ------------------------------------------------ shutdown, dispatches in flight

\* the transport server still hands requests to the daemon
TransportUp == shutdownPc \in {"idle", "cleared", "flagged"}

\* Daemon.handleRequest up to the call of the method (line 478): the method
\* runs and will return the iterator data
BeginDispatch(c, data) ==
    /\ TransportUp
    /\ connState[c] = "open"
    /\ inflight[c] = Idle
    /\ inflight' = [inflight EXCEPT ![c] = data]
    /\ UNCHANGED <<streaming_responses, nextStreamId, now, connState, cfgVars, reply, ended,
                   mustshutdown, shutdownPc, instVars, regVars, reqVars, reader>>

\* the method returned: line 480, Daemon._streamResponse(data, conn)
EndDispatch(c) ==
    /\ inflight[c] # Idle
    /\ nextStreamId <= MaxStreams
    /\ streaming_responses' =
          StreamRegistered(streaming_responses, nextStreamId, c, inflight[c])
    /\ nextStreamId' = nextStreamId + 1
    /\ inflight' = [inflight EXCEPT ![c] = Idle]
    /\ UNCHANGED <<now, connState, cfgVars, reply, ended, mustshutdown, shutdownPc, instVars, regVars, reqVars, reader>>

\* Daemon.shutdown, line 311: self.streaming_responses = {}
shutdown_clear ==
    /\ shutdownPc = "idle"
    /\ streaming_responses' = << >>
    /\ shutdownPc' = "cleared"
    /\ UNCHANGED <<nextStreamId, now, connState, cfgVars, reply, ended, mustshutdown, inflight, instVars, regVars, reqVars, reader>>

\* Daemon.shutdown, line 313: self.__mustshutdown.set()
shutdown_flag ==
    /\ shutdownPc = "cleared"
    /\ mustshutdown' = TRUE
    /\ shutdownPc' = "flagged"
    /\ UNCHANGED <<streaming_responses, nextStreamId, now, connState, cfgVars, reply, ended,
                   inflight, instVars, regVars, reqVars, reader>>

\* Daemon.shutdown, line 315: self.transportServer.shutdown()
shutdown_transport ==
    /\ shutdownPc = "flagged"
    /\ shutdownPc' = "stopping"
    /\ UNCHANGED <<streaming_responses, nextStreamId, now, connState, cfgVars, reply, ended,
                   mustshutdown, inflight, instVars, regVars, reqVars, reader>>

\* Daemon.shutdown, line 317: self.close(), which sets the flag and drops the
\* registry again (lines 746-751)
shutdown_close ==
    /\ shutdownPc = "stopping"
    /\ mustshutdown' = TRUE
    /\ streaming_responses' = << >>
    /\ shutdownPc' = "closed"
    /\ UNCHANGED <<nextStreamId, now, connState, cfgVars, reply, ended, inflight, instVars, regVars, reqVars, reader>>

\* Daemon.shutdown, line 318: the wait for the loop ends and shutdown returns
shutdown_return ==
    /\ shutdownPc = "closed"
    /\ shutdownPc' = "returned"
    /\ UNCHANGED <<streaming_responses, nextStreamId, now, connState, cfgVars, reply, ended,
                   mustshutdown, inflight, instVars, regVars, reqVars, reader>>

\* The worker of a connection handles one request at a time, and requests
\* arrive only while the transport server runs.
NextShutdown ==
    \/ \E c \in Conns : TransportUp /\ Connect(c)
    \/ \E c \in Conns, data \in Iterators : BeginDispatch(c, data)
    \/ \E c \in Conns : EndDispatch(c)
    \/ \E c \in Conns, sid \in StreamIds :
          TransportUp /\ inflight[c] = Idle /\ get_next_stream_item(c, sid)
    \/ \E c \in Conns : inflight[c] = Idle /\ _clientDisconnect(c)
    \/ _housekeeping
    \/ Tick
    \/ shutdown_clear
    \/ shutdown_flag
    \/ shutdown_transport
    \/ shutdown_close
    \/ shutdown_return


\* ------------------------------------------------------------ object registry

\* core.DAEMON_NAME, the object id of the daemon's introspection object
DAEMON_NAME == "Pyro.Daemon"
\* the introspection object, pyroObject of Daemon.__init__
DaemonObj == 0
\* the objects and classes a user registers
Targets == 1..MaxTargets
\* getattr(obj, "_pyroId", None) finds no attribute
NoAttr == "<no attribute>"
\* objectId=None
NoId == "<None>"
\* the object ids callers pass to register, unregister and uriFor
CallerIds == {DAEMON_NAME, "a"}
\* Daemon.locationStr
locationStr == "host:1"

\* "obj_" + uuid.uuid4().hex, the n-th one generated
GenId(n) == "obj_" \o ToString(n)

Ok(val) == [ok |-> TRUE, val |-> val]
Raised(err) == [ok |-> FALSE, val |-> err]

RegistryState ==
    [objectsById |-> objectsById, pyroId |-> pyroId, pyroDaemon |-> pyroDaemon,
     nextObjId |-> nextObjId]

\* d[key] = value
Put(d, key, value) == [k \in DOMAIN d \cup {key} |-> IF k = key THEN value ELSE d[k]]

\* del d[key]
Del(d, key) == [k \in DOMAIN d \ {key} |-> d[k]]

\* lines 710-714 of Daemon.uriFor: the URI of an object id
URI(objectId, nat) ==
    "PYRO:" \o objectId \o "@" \o
        (IF nat /\ natLocationStr # "None" THEN natLocationStr ELSE locationStr)

\* a variant of RegisterRefusal without the test of the registry
RegisterRefusal_noIdCheck(st, x, objectId, force) ==
    IF ~force /\ st.pyroId[x] # NoAttr /\ st.pyroId[x] # ""
    THEN "object or class already has a Pyro id"
    ELSE ""

\* the messages of the errors.DaemonError raised by register, unregister and
\* uriFor (lines 657, 659, 682, 709)
DaemonErrors ==
    {"object or class already has a Pyro id",
     "an object or class is already registered with that id",
     "object isn't registered",
     "object isn't registered in this daemon"}

\* lines 655-659 of Daemon.register: the checks made unless force is given
RegisterRefusal(st, x, objectId, force) ==
    IF ~force /\ st.pyroId[x] # NoAttr /\ st.pyroId[x] # ""
    THEN "object or class already has a Pyro id"
    ELSE IF ~force /\ objectId \in DOMAIN st.objectsById
    THEN "an object or class is already registered with that id"
    ELSE ""

\* Daemon.register(obj_or_class, objectId, force): the state after it and
\* what it returned or raised
RegisterCall(st, x, objectId, force) ==
    LET generate == objectId \in {NoId, ""}
        id == IF generate THEN GenId(st.nextObjId) ELSE objectId
        st1 == IF generate THEN [st EXCEPT !.nextObjId = @ + 1] ELSE st
        refusal == RegisterRefusal(st1, x, id, force)
    IN  IF refusal # ""
        THEN [st |-> st1, res |-> Raised(refusal)]
        ELSE [st |-> [st1 EXCEPT !.pyroId[x] = id,
                                 !.pyroDaemon[x] = TRUE,
                                 !.objectsById = Put(@, id, x)],
              res |-> Ok(URI(id, TRUE))]

\* a variant of NotRegistered that refuses nothing
NotRegistered_never(st, form, x) == FALSE

\* lines 679-682 of Daemon.unregister: an object without _pyroId is refused
NotRegistered(st, form, x) == form = "target" /\ st.pyroId[x] = NoAttr

\* a variant of Removed that leaves the entry in the registry
Removed_keepEntry(st, form, x, objectId) ==
    IF form = "target"
    THEN [st EXCEPT !.pyroId[x] = NoAttr, !.pyroDaemon[x] = FALSE]
    ELSE st

\* lines 688-692 of Daemon.unregister: the entry is removed, and the target's
\* attributes are deleted when the target itself was given
Removed(st, form, x, objectId) ==
    LET st1 == [st EXCEPT !.objectsById = Del(@, objectId)]
    IN  IF form = "target"
        THEN [st1 EXCEPT !.pyroId[x] = NoAttr, !.pyroDaemon[x] = FALSE]
        ELSE st1

\* Daemon.unregister(objectOrId), given the target x (form "target") or the
\* object id string id (form "id")
UnregisterCall(st, form, x, id) ==
    IF NotRegistered(st, form, x)
    THEN [st |-> st, res |-> Raised("object isn't registered")]
    ELSE LET objectId == IF form = "target" THEN st.pyroId[x] ELSE id
         IN  IF objectId = DAEMON_NAME
             THEN [st |-> st, res |-> Ok("None")]
             ELSE IF objectId \in DOMAIN st.objectsById
             THEN [st |-> Removed(st, form, x, objectId), res |-> Ok("None")]
             ELSE [st |-> st, res |-> Ok("None")]

\* a variant of UriForCall that always answers with the internal location
UriForCall_internal(st, form, x, id, nat) ==
    IF form = "target"
    THEN IF st.pyroId[x] = NoAttr \/ st.pyroId[x] \notin DOMAIN st.objectsById
         THEN [st |-> st, res |-> Raised("object isn't registered in this daemon")]
         ELSE [st |-> st, res |-> Ok(URI(st.pyroId[x], FALSE))]
    ELSE [st |-> st, res |-> Ok(URI(id, FALSE))]

\* Daemon.uriFor(objectOrId, nat)
UriForCall(st, form, x, id, nat) ==
    IF form = "target"
    THEN IF st.pyroId[x] = NoAttr \/ st.pyroId[x] \notin DOMAIN st.objectsById
         THEN [st |-> st, res |-> Raised("object isn't registered in this daemon")]
         ELSE [st |-> st, res |-> Ok(URI(st.pyroId[x], nat))]
    ELSE [st |-> st, res |-> Ok(URI(id, nat))]

Call(op, form, x, id, force, nat) ==
    [op |-> op, given |-> form, target |-> x, objectId |-> id, force |-> force,
     nat |-> nat]

\* what a call does to the registry
Apply(st, call) ==
    IF call.op = "register"
    THEN RegisterCall(st, call.target, call.objectId, call.force)
    ELSE IF call.op = "unregister"
    THEN UnregisterCall(st, call.given, call.target, call.objectId)
    ELSE UriForCall(st, call.given, call.target, call.objectId, call.nat)

\* the call is made in one step; lastCall keeps it, its result and the
\* registry it found
Made(call) ==
    LET r == Apply(RegistryState, call)
    IN  /\ objectsById' = r.st.objectsById
        /\ pyroId' = r.st.pyroId
        /\ pyroDaemon' = r.st.pyroDaemon
        /\ nextObjId' = r.st.nextObjId
        /\ lastCall' = [call |-> call, res |-> r.res, pre |-> objectsById]
        /\ UNCHANGED <<natLocationStr, thr, streamVars, instVars, reqVars, reader>>

\* objectOrId: the target itself, or an object id string
GivenTarget(x) == [given |-> "target", target |-> x, objectId |-> ""]
GivenId(id) == [given |-> "id", target |-> DaemonObj, objectId |-> id]

\* Daemon.register(x, objectId, force)
register(x, objectId, force) ==
    /\ objectId \in {NoId, ""} => nextObjId <= MaxGenIds
    /\ Made(Call("register", "target", x, objectId, force, TRUE))

\* Daemon.unregister(objectOrId)
unregister(objectOrId) ==
    Made(Call("unregister", objectOrId.given, objectOrId.target, objectOrId.objectId,
              FALSE, TRUE))

\* the state Daemon.__init__ leaves (lines 228-231)
Constructed ==
    [objectsById |-> (DAEMON_NAME :> DaemonObj), pyroId |-> [x \in Targets |-> NoAttr],
     pyroDaemon |-> [x \in Targets |-> FALSE]]

NoCall ==
    [call |-> Call("none", "id", DaemonObj, "", FALSE, TRUE), res |-> Ok("None"),
     pre |-> Constructed.objectsById]

\* what callers pass as objectOrId: a target, or an object id in use
ObjectsOrIds ==
    {GivenTarget(x) : x \in Targets}
        \cup {GivenId(id) : id \in CallerIds \cup {GenId(n) : n \in 1..MaxGenIds}}

NextReg ==
    \/ \E x \in Targets, id \in CallerIds \cup {NoId}, force \in BOOLEAN :
          register(x, id, force)
    \/ \E objectOrId \in ObjectsOrIds : unregister(objectOrId)

\* Daemon.uriFor(objectOrId, nat)
uriFor(objectOrId, nat) ==
    Made(Call("uriFor", objectOrId.given, objectOrId.target, objectOrId.objectId,
              FALSE, nat))

\* DaemonObject.registered(): the object ids in the registry
registered == DOMAIN objectsById

\* the object id of a URI "PYRO:<object>@<location>"
UriObject(u) ==
    CHOOSE id \in CallerIds \cup {GenId(n) : n \in 1..(MaxGenIds + 1)} :
        \E nat \in BOOLEAN : URI(id, nat) = u

NextRegNat ==
    \/ \E x \in Targets, id \in {"a", NoId}, force \in BOOLEAN : register(x, id, force)
    \/ \E x \in Targets : unregister(GivenTarget(x))
    \/ \E x \in Targets, nat \in BOOLEAN : uriFor(GivenTarget(x), nat)

\* -------------------------------------------------------- instance manager

\* The registered classes: their instance mode (clazz._pyroInstancing[0]) and
\* whether their instances are false in a boolean context (a class with
\* __bool__ returning False, or with __len__ returning 0).
Classes ==
    {[mode |-> "single", falsy |-> FALSE], [mode |-> "single", falsy |-> TRUE],
     [mode |-> "session", falsy |-> FALSE], [mode |-> "session", falsy |-> TRUE],
     [mode |-> "percall", falsy |-> FALSE]}

IdleWorker == [pc |-> "idle", clazz |-> None, instance |-> None]

\* d.get(key), lines 589 and 599
Get(d, key) == IF key \in DOMAIN d THEN d[key] ELSE None

\* `not instance`, lines 590 and 600
Not(instance) == instance = None \/ createdBy[instance].clazz.falsy

InstFrame == UNCHANGED <<streamVars, regVars, reqVars, reader>>

\* _getInstance(clazz, conn) is entered, line 587
_getInstance(c, clazz) ==
    /\ connState[c] = "open"
    /\ worker[c].pc = "idle"
    /\ worker' = [worker EXCEPT ![c] =
                     [pc |-> IF clazz.mode = "percall" THEN "create" ELSE "get",
                      clazz |-> clazz, instance |-> None]]
    /\ UNCHANGED <<pyroInstances, connInstances, nextInstance, createdBy>>
    /\ InstFrame

\* lines 589-590 and 599-600: the instance kept for the class, and the test
getInstance_get(c) ==
    /\ worker[c].pc = "get"
    /\ LET clazz == worker[c].clazz
           instance == IF clazz.mode = "single" THEN Get(pyroInstances, clazz)
                       ELSE Get(connInstances[c], clazz)
       IN  worker' = [worker EXCEPT ![c].instance = instance,
                                    ![c].pc = IF Not(instance) THEN "create" ELSE "return"]
    /\ UNCHANGED <<pyroInstances, connInstances, nextInstance, createdBy>>
    /\ InstFrame

\* createInstance(clazz, creator) returns a new object, lines 575-581
createInstance(c) ==
    /\ worker[c].pc = "create"
    /\ nextInstance <= MaxInstances
    /\ createdBy' = Append(createdBy, [clazz |-> worker[c].clazz, conn |-> c])
    /\ nextInstance' = nextInstance + 1
    /\ worker' = [worker EXCEPT ![c].instance = nextInstance,
                                ![c].pc = IF worker[c].clazz.mode = "percall"
                                          THEN "return" ELSE "store"]
    /\ UNCHANGED <<pyroInstances, connInstances>>
    /\ InstFrame

\* createInstance(clazz, creator) raises, lines 580 and 582-584
createInstance_raises(c) ==
    /\ worker[c].pc = "create"
    /\ worker' = [worker EXCEPT ![c] = IdleWorker]
    /\ UNCHANGED <<pyroInstances, connInstances, nextInstance, createdBy>>
    /\ InstFrame

\* lines 593 and 603: the new instance is kept
getInstance_store(c) ==
    /\ worker[c].pc = "store"
    /\ LET clazz == worker[c].clazz
       IN  IF clazz.mode = "single"
           THEN /\ pyroInstances' = Put(pyroInstances, clazz, worker[c].instance)
                /\ UNCHANGED connInstances
           ELSE /\ connInstances' =
                     [connInstances EXCEPT ![c] = Put(@, clazz, worker[c].instance)]
                /\ UNCHANGED pyroInstances
    /\ worker' = [worker EXCEPT ![c].pc = "return"]
    /\ UNCHANGED <<nextInstance, createdBy>>
    /\ InstFrame

\* lines 594, 604 and 607: the instance is returned and the method is called
\* on it
getInstance_return(c) ==
    /\ worker[c].pc = "return"
    /\ worker' = [worker EXCEPT ![c] = IdleWorker]
    /\ UNCHANGED <<pyroInstances, connInstances, nextInstance, createdBy>>
    /\ InstFrame

\* The worker of a connection handles one request at a time and notices the
\* disconnect between requests.
NextInst ==
    \/ \E c \in Conns : Connect(c)
    \/ \E c \in Conns : worker[c].pc = "idle" /\ _clientDisconnect(c)
    \/ \E c \in Conns, clazz \in Classes : _getInstance(c, clazz)
    \/ \E c \in Conns : getInstance_get(c)
    \/ \E c \in Conns : createInstance(c)
    \/ \E c \in Conns : createInstance_raises(c)
    \/ \E c \in Conns : getInstance_store(c)
    \/ \E c \in Conns : getInstance_return(c)

\* ------------------------------------------- object registry, calls in threads

\* Each thread makes one call on the registry, statement by statement:
\* thr.th[t] is the call of thread t, the statement it is at, its local
\* objectId and its result; thr.start is the registry the threads found.
Threads == 1..MaxThreads

At(t, pc) == t \in DOMAIN thr.th /\ thr.th[t].pc = pc
Goto(t, pc) == thr' = [thr EXCEPT !.th[t].pc = pc]
Finish(t, res) == thr' = [thr EXCEPT !.th[t].pc = "done", !.th[t].res = res]
ParFrame == UNCHANGED <<nextObjId, natLocationStr, lastCall, streamVars, instVars, reqVars, reader>>
RegistryFrame == UNCHANGED <<objectsById, pyroId, pyroDaemon>>

\* a thread enters register, unregister or uriFor
Enter(t, call) ==
    /\ At(t, "idle")
    /\ thr' = [thr EXCEPT !.th[t] =
                  [pc |-> call.op, call |-> call, objectId |-> call.objectId,
                   res |-> Ok("None")]]
    /\ RegistryFrame /\ ParFrame

\* register, lines 647-651: the object id given, or a new one; the uuid of
\* thread t is its own
reg_objectId(t) ==
    /\ At(t, "register")
    /\ thr' = [thr EXCEPT !.th[t].pc = "reg_check_pyroId",
                          !.th[t].objectId =
                             IF thr.th[t].call.objectId \in {NoId, ""}
                             THEN GenId(t) ELSE thr.th[t].call.objectId]
    /\ RegistryFrame /\ ParFrame

\* register, lines 655-657
reg_check_pyroId(t) ==
    /\ At(t, "reg_check_pyroId")
    /\ LET call == thr.th[t].call
       IN  IF call.force
           THEN Goto(t, "reg_set_pyroId")
           ELSE IF pyroId[call.target] # NoAttr /\ pyroId[call.target] # ""
           THEN Finish(t, Raised("object or class already has a Pyro id"))
           ELSE Goto(t, "reg_check_registry")
    /\ RegistryFrame /\ ParFrame

\* register, lines 658-659
reg_check_registry(t) ==
    /\ At(t, "reg_check_registry")
    /\ IF thr.th[t].objectId \in DOMAIN objectsById
       THEN Finish(t, Raised("an object or class is already registered with that id"))
       ELSE Goto(t, "reg_set_pyroId")
    /\ RegistryFrame /\ ParFrame

\* register, line 661: obj_or_class._pyroId = objectId
reg_set_pyroId(t) ==
    /\ At(t, "reg_set_pyroId")
    /\ pyroId' = [pyroId EXCEPT ![thr.th[t].call.target] = thr.th[t].objectId]
    /\ Goto(t, "reg_set_pyroDaemon")
    /\ UNCHANGED <<objectsById, pyroDaemon>> /\ ParFrame

\* register, line 662: obj_or_class._pyroDaemon = self
reg_set_pyroDaemon(t) ==
    /\ At(t, "reg_set_pyroDaemon")
    /\ pyroDaemon' = [pyroDaemon EXCEPT ![thr.th[t].call.target] = TRUE]
    /\ Goto(t, "reg_store")
    /\ UNCHANGED <<objectsById, pyroId>> /\ ParFrame

\* register, line 669: self.objectsById[obj_or_class._pyroId] = obj_or_class;
\* a target whose _pyroId another thread has deleted raises AttributeError
reg_store(t) ==
    /\ At(t, "reg_store")
    /\ LET x == thr.th[t].call.target
       IN  IF pyroId[x] = NoAttr
           THEN /\ Finish(t, Raised("AttributeError: _pyroId"))
                /\ UNCHANGED objectsById
           ELSE /\ objectsById' = Put(objectsById, pyroId[x], x)
                /\ Goto(t, "reg_return")
    /\ UNCHANGED <<pyroId, pyroDaemon>> /\ ParFrame

\* register, line 670: return self.uriFor(objectId)
reg_return(t) ==
    /\ At(t, "reg_return")
    /\ Finish(t, Ok(URI(thr.th[t].objectId, TRUE)))
    /\ RegistryFrame /\ ParFrame

\* unregister, lines 679-685: the object id of what was given
unreg_objectId(t) ==
    /\ At(t, "unregister")
    /\ LET call == thr.th[t].call
       IN  IF call.given = "target"
           THEN IF pyroId[call.target] = NoAttr
                THEN Finish(t, Raised("object isn't registered"))
                ELSE thr' = [thr EXCEPT !.th[t].pc = "unreg_reserved",
                                        !.th[t].objectId = pyroId[call.target]]
           ELSE Goto(t, "unreg_reserved")
    /\ RegistryFrame /\ ParFrame

\* unregister, lines 686-688
unreg_reserved(t) ==
    /\ At(t, "unreg_reserved")
    /\ IF thr.th[t].objectId = DAEMON_NAME
       THEN Finish(t, Ok("None"))
       ELSE IF thr.th[t].objectId \in DOMAIN objectsById
       THEN Goto(t, "unreg_del_entry")
       ELSE Finish(t, Ok("None"))
    /\ RegistryFrame /\ ParFrame

\* unregister, line 689: del self.objectsById[objectId]
unreg_del_entry(t) ==
    /\ At(t, "unreg_del_entry")
    /\ IF thr.th[t].objectId \notin DOMAIN objectsById
       THEN /\ Finish(t, Raised("KeyError"))
            /\ UNCHANGED objectsById
       ELSE /\ objectsById' = Del(objectsById, thr.th[t].objectId)
            /\ IF thr.th[t].call.given = "target"
               THEN Goto(t, "unreg_del_pyroId")
               ELSE Finish(t, Ok("None"))
    /\ UNCHANGED <<pyroId, pyroDaemon>> /\ ParFrame

\* unregister, line 691: del objectOrId._pyroId
unreg_del_pyroId(t) ==
    /\ At(t, "unreg_del_pyroId")
    /\ LET x == thr.th[t].call.target
       IN  IF pyroId[x] = NoAttr
           THEN /\ Finish(t, Raised("AttributeError: _pyroId"))
                /\ UNCHANGED pyroId
           ELSE /\ pyroId' = [pyroId EXCEPT ![x] = NoAttr]
                /\ Goto(t, "unreg_del_pyroDaemon")
    /\ UNCHANGED <<objectsById, pyroDaemon>> /\ ParFrame

\* unregister, line 692: del objectOrId._pyroDaemon
unreg_del_pyroDaemon(t) ==
    /\ At(t, "unreg_del_pyroDaemon")
    /\ LET x == thr.th[t].call.target
       IN  IF ~pyroDaemon[x]
           THEN /\ Finish(t, Raised("AttributeError: _pyroDaemon"))
                /\ UNCHANGED pyroDaemon
           ELSE /\ pyroDaemon' = [pyroDaemon EXCEPT ![x] = FALSE]
                /\ Finish(t, Ok("None"))
    /\ UNCHANGED <<objectsById, pyroId>> /\ ParFrame

\* uriFor, lines 706-707: the object id of what was given
uri_objectId(t) ==
    /\ At(t, "uriFor")
    /\ LET call == thr.th[t].call
       IN  IF call.given = "target"
           THEN thr' = [thr EXCEPT !.th[t].pc = "uri_check",
                                   !.th[t].objectId = pyroId[call.target]]
           ELSE Goto(t, "uri_return")
    /\ RegistryFrame /\ ParFrame

\* uriFor, lines 708-709
uri_check(t) ==
    /\ At(t, "uri_check")
    /\ IF thr.th[t].objectId = NoAttr \/ thr.th[t].objectId \notin DOMAIN objectsById
       THEN Finish(t, Raised("object isn't registered in this daemon"))
       ELSE Goto(t, "uri_return")
    /\ RegistryFrame /\ ParFrame

\* uriFor, lines 710-714
uri_return(t) ==
    /\ At(t, "uri_return")
    /\ Finish(t, Ok(URI(thr.th[t].objectId, thr.th[t].call.nat)))
    /\ RegistryFrame /\ ParFrame

\* the calls a thread may make
Calls ==
    {Call("register", "target", x, id, force, TRUE) :
        x \in Targets, id \in {"a", NoId}, force \in BOOLEAN}
    \cup {Call("unregister", o.given, o.target, o.objectId, FALSE, TRUE) :
            o \in {GivenTarget(x) : x \in Targets} \cup {GivenId("a")}}
    \cup {Call("uriFor", o.given, o.target, o.objectId, FALSE, nat) :
            o \in {GivenTarget(1)}, nat \in BOOLEAN}

NextRegPar ==
    \/ \E t \in Threads, call \in Calls : Enter(t, call)
    \/ \E t \in Threads : reg_objectId(t)
    \/ \E t \in Threads : reg_check_pyroId(t)
    \/ \E t \in Threads : reg_check_registry(t)
    \/ \E t \in Threads : reg_set_pyroId(t)
    \/ \E t \in Threads : reg_set_pyroDaemon(t)
    \/ \E t \in Threads : reg_store(t)
    \/ \E t \in Threads : reg_return(t)
    \/ \E t \in Threads : unreg_objectId(t)
    \/ \E t \in Threads : unreg_reserved(t)
    \/ \E t \in Threads : unreg_del_entry(t)
    \/ \E t \in Threads : unreg_del_pyroId(t)
    \/ \E t \in Threads : unreg_del_pyroDaemon(t)
    \/ \E t \in Threads : uri_objectId(t)
    \/ \E t \in Threads : uri_check(t)
    \/ \E t \in Threads : uri_return(t)

\* the registries the threads start from: the constructed daemon, or target 1
\* registered under "a"
StartStates ==
    { [Constructed EXCEPT !.objectsById = Put(@, id, 1), !.pyroId[1] = id,
                          !.pyroDaemon[1] = TRUE] : id \in {"a"} }
        \cup {Constructed}

\* the threads are about to make their calls
InitPar(natLocations) ==
    /\ \E st \in StartStates :
          /\ objectsById = st.objectsById
          /\ pyroId = st.pyroId
          /\ pyroDaemon = st.pyroDaemon
          /\ thr = [start |-> st,
                    th |-> [t \in Threads |->
                              [pc |-> "idle", call |-> NoCall.call, objectId |-> "",
                               res |-> Ok("None")]]]
    /\ nextObjId = 1
    /\ natLocationStr \in natLocations
    /\ lastCall = NoCall

\* the calls made one after the other in some order: the registries and
\* results this can end with
RECURSIVE SerialOutcomes(_, _, _)
SerialOutcomes(st, res, todo) ==
    IF todo = {}
    THEN {[objectsById |-> st.objectsById, pyroId |-> st.pyroId,
           pyroDaemon |-> st.pyroDaemon, res |-> res]}
    ELSE UNION { LET r == Apply([st EXCEPT !.nextObjId = t], thr.th[t].call)
                 IN  SerialOutcomes(r.st, [res EXCEPT ![t] = r.res], todo \ {t})
                 : t \in todo }

\* ------------------------------------------------------ handshake, requests

NoMessage == [kind |-> "none"]

\* serializers.MarshalSerializer.serializer_id, the default of lines 335 and 405
Marshal == "marshal"
\* Daemon.__serializer_ids, the accept-list (line 236)
serializer_ids == {"serpent", Marshal}
\* the serializer ids a client may put in a header: accepted ones, one that
\* exists but is not accepted, and one that no serializer has
SerializerIds == serializer_ids \cup {"json", "no such serializer"}

\* an exception object: its class, its message and its pyroMsg attribute, if
\* it has one (protocol.recv_stub puts the offending message there)
Exc(cls, text) == [cls |-> cls, text |-> text, pyroMsg |-> << >>]
NoExc == Exc("none", "")
\* errors.CommunicationError and the classes that derive from it; line 515
\* tells SerializationError apart from the other ones
CommunicationErrors ==
    {"CommunicationError", "ConnectionClosedError", "ProtocolError", "SerializationError"}

\* protocol.SendingMessage(msgtype, flags, seq, serializer_id, data, annotations)
SendingMessage(msgtype, flags, seq, serializer_id, data, annotations) ==
    [type |-> msgtype, flags |-> flags, seq |-> seq, serializer_id |-> serializer_id,
     data |-> data, annotations |-> annotations]

\* The correlation ids clients put in the CORR annotation; corr is "none" in
\* a message without that annotation.
CorrIds == {"A", "B"}
\* uuid.uuid4(), lines 349 and 421: an id that no client sent
Minted == "minted"
\* lines 346-349 and 418-421: the correlation id the context gets from msg
CorrelationId(msg) == IF msg.corr # "none" THEN msg.corr ELSE Minted
\* Daemon.annotations(), lines 753-762, when the correlation id of the
\* context is ctx ("None" as long as the thread has set none)
Daemon_annotations(ctx) == IF ctx # "None" THEN ("CORR" :> ctx) ELSE << >>
\* The thread that handles connection c: its own worker under the thread
\* pool server, the one thread of the daemon under the multiplexed server.
\* core.current_context belongs to the thread.
Thread(c) == IF reqCfg.SERVERTYPE = "multiplex" THEN 1 ELSE c

\* The object ids a client asks for: a registered object, a registered class
\* and an id that is not in the registry.
RequestedIds == {"a", "k", "gone"}

\* What protocol.recv_stub(conn, [MSG_CONNECT]) gives the handshake: a CONNECT
\* message, ConnectionClosedError, or ProtocolError for a message of another
\* type.  fault names the one step of the handshake that raises, if it is
\* reached: bad CORR bytes, a payload that does not deserialize, a payload
\* without the "handshake" key, validateHandshake raising (an exception, or a
\* ConnectionClosedError of a connection the hook used), or a hook result that
\* does not serialize.
HandshakeFaults ==
    {"none", "CORR", "deserialize", "KeyError", "validateHandshake",
     "validateHandshake: ConnectionClosedError", "serialize"}
ConnectMessages(seq) ==
    [type : {"CONNECT"}, seq : {seq}, serializer_id : {"serpent"},
     object : RequestedIds, fault : HandshakeFaults, corr : {"none"}]
        \cup [type : {"CONNECT"}, seq : {seq}, serializer_id : SerializerIds,
              object : {"a"}, fault : {"none", "validateHandshake"}, corr : {"none"}]
        \cup [type : {"<closed>", "<INVOKE>"}, seq : {seq}, serializer_id : {Marshal},
              object : {"a"}, fault : {"none"}, corr : {"none"}]
\* the denied_reason the transport passes: none, or that it has no free worker
DeniedReasons(msg) ==
    IF msg.object = "a" /\ msg.fault \in {"none", "validateHandshake"}
    THEN {"None", "no free workers"} ELSE {"None"}

\* where the try block of _handshake ends, lines 337-364: the exception that
\* left it (NoExc when it ran to its end), the steps taken, and msg_seq and
\* serializer_id as they are then
Tried(x, did, msg_seq, serializer_id) ==
    [x |-> x, did |-> did, msg_seq |-> msg_seq, serializer_id |-> serializer_id]

\* `if denied_reason:`, line 340
Denied(denied_reason) == denied_reason # "None"

\* a variant of Accepted that accepts every serializer id
Accepted_any(serializer_id) == TRUE
\* `msg.serializer_id not in self.__serializer_ids` is false, lines 344 and 431
Accepted(serializer_id) == serializer_id \in serializer_ids

\* the try block of _handshake, lines 337-364
HandshakeTry(denied_reason, msg) ==
    IF msg.type = "<closed>"
    THEN Tried(Exc("ConnectionClosedError", "connection closed"), << >>, 0, Marshal)
    ELSE IF msg.type # "CONNECT"
    THEN Tried(Exc("ProtocolError", "invalid msg type received"), << >>, 0, Marshal)
    ELSE IF Denied(denied_reason)
    THEN Tried(Exc("Exception", denied_reason), << >>, msg.seq, Marshal)
    ELSE IF ~Accepted(msg.serializer_id)
    THEN Tried(Exc("SerializationError", "message used serializer that is not accepted"),
               << >>, msg.seq, Marshal)
    ELSE IF msg.fault = "CORR"
    THEN Tried(Exc("ValueError", "bytes is not a 16-char string"), << >>, msg.seq, Marshal)
    ELSE IF msg.fault = "deserialize"
    THEN Tried(Exc("SerializationError", "cannot deserialize"), <<"deserializeData">>,
               msg.seq, msg.serializer_id)
    ELSE IF msg.fault = "KeyError"
    THEN Tried(Exc("KeyError", "'handshake'"), <<"deserializeData">>,
               msg.seq, msg.serializer_id)
    ELSE IF msg.fault = "validateHandshake"
    THEN Tried(Exc("SecurityError", "not welcome"), <<"deserializeData", "validateHandshake">>,
               msg.seq, msg.serializer_id)
    ELSE IF msg.fault = "validateHandshake: ConnectionClosedError"
    THEN Tried(Exc("ConnectionClosedError", "receiving: connection lost"),
               <<"deserializeData", "validateHandshake">>, msg.seq, msg.serializer_id)
    ELSE IF msg.object \notin DOMAIN objectsById
    THEN Tried(Exc("DaemonError", "unknown object"),
               <<"deserializeData", "validateHandshake", "get_metadata">>,
               msg.seq, msg.serializer_id)
    ELSE IF msg.fault = "serialize"
    THEN Tried(Exc("SerializationError", "unsupported serialized class"),
               <<"deserializeData", "validateHandshake", "get_metadata", "serializeData">>,
               msg.seq, msg.serializer_id)
    ELSE Tried(NoExc, <<"deserializeData", "validateHandshake", "get_metadata", "serializeData">>,
               msg.seq, msg.serializer_id)

\* what the daemon did with the last message of connection c: the steps
\* it took in order (deserialization, hook, lookup, instance lookup, method
\* calls, serialization), the exception that ended the try block, the
\* messages it sent and how the handler ended
Handled(kind, c, denied_reason, msg, did, x, sent, res) ==
    [kind |-> kind, conn |-> c, denied |-> denied_reason, msg |-> msg, did |-> did,
     x |-> x, sent |-> sent, res |-> res]

\* the log of a connection: the seq of each INVOKE received without the
\* ONEWAY flag and the seq of each RESULT sent, oldest first
NoTraffic == [asked |-> << >>, results |-> << >>]
RECURSIVE Seqs(_)
Seqs(msgs) == IF msgs = << >> THEN << >> ELSE <<Head(msgs).seq>> \o Seqs(Tail(msgs))
Logged(log, msg, sent) ==
    [asked |-> IF msg.type = "INVOKE" /\ "ONEWAY" \notin msg.flags
               THEN Append(log.asked, msg.seq) ELSE log.asked,
     results |-> log.results \o Seqs(SelectSeq(sent, LAMBDA m : m.type = "RESULT"))]

ReqFrame == UNCHANGED <<now, cfgVars, reply, ended, shutVars, regVars,
                        pyroInstances, worker, reqCfg, reader>>

\* Daemon._handshake(conn, denied_reason), lines 324-380, on a new connection.
\* The transport closes the connection when the handshake returns False.
\* The try block stores the correlation id of the message in the context of
\* the thread at lines 346-349, when it gets that far (correlates).
_handshake(c, denied_reason, msg) ==
    /\ connState[c] = "new"
    /\ msg.seq = nextSeq
    /\ nextSeq <= MaxRequests
    /\ LET t == HandshakeTry(denied_reason, msg)
           correlates == /\ msg.type = "CONNECT"
                         /\ ~Denied(denied_reason)
                         /\ Accepted(msg.serializer_id)
                         /\ msg.fault # "CORR"
           ctx == IF correlates THEN CorrelationId(msg) ELSE correlation_id[Thread(c)]
           response ==
              IF t.x = NoExc
              THEN SendingMessage("CONNECTOK", << >>, t.msg_seq, t.serializer_id,
                                  [handshake |-> "hello", meta |-> msg.object],
                                  Daemon_annotations(ctx))
              ELSE SendingMessage("CONNECTFAIL", << >>, t.msg_seq, t.serializer_id,
                                  t.x.text, Daemon_annotations(ctx))
           sent == IF t.x.cls = "ConnectionClosedError" THEN << >> ELSE <<response>>
           ok == sent # << >> /\ sent[1].type = "CONNECTOK"
       IN  /\ handled' = Handled("handshake", c, denied_reason, msg, t.did, t.x, sent, Ok(ok))
           /\ connState' = [connState EXCEPT ![c] = IF ok THEN "open" ELSE "closed"]
           /\ correlation_id' = [correlation_id EXCEPT ![Thread(c)] = ctx]
    /\ nextSeq' = nextSeq + 1
    /\ UNCHANGED <<traffic, streaming_responses, nextStreamId, connInstances, nextInstance,
                   createdBy>>
    /\ ReqFrame

\* the ids for which serializers.get_serializer_by_id finds a serializer
KnownSerializerIds == SerializerIds \ {"no such serializer"}

\* the registered class "k": a class in the default instance mode
RequestClass == [mode |-> "session", falsy |-> FALSE]
RequestClassTarget == 2
\* inspect.isclass(obj), line 445
isclass(obj) == obj = RequestClassTarget

\* The names bound in the module namespace of server.py: its imports (lines
\* 7-19) and its own top-level definitions.
Globals ==
    {"inspect", "collections", "logging", "sys", "os", "time", "threading", "uuid",
     "warnings", "serpent", "errors", "config", "core", "protocol", "serializers",
     "multiplexserver", "threadpoolserver", "locateNS", "get_exposed_property_value",
     "set_exposed_property_value", "_OnewayCallThread"}
\* looking up a global name succeeds; otherwise Python raises NameError
Bound(name) == name \in Globals
NameError(name) == Exc("NameError", "name '" \o name \o "' is not defined")

\* The registered object "a" and the instances of the registered class "k"
\* have these methods and properties.  What each does when called:
\*   "one", "two"  exposed methods that return a value
\*   "iter"        an exposed method that returns a generator
\*   "view"        an exposed method that returns the keys() view of a dict
\*   "fail"        an exposed method that raises ValueError
\*   "drop"        an exposed method that raises ConnectionClosedError
\*   "cb"          an exposed method tagged @callback that raises ValueError
\*   "relay"       an exposed method that calls another server and raises the
\*                 ProtocolError of that call, which carries the message that
\*                 the other server sent
\*   "private"     not exposed: getAttribute raises AttributeError
\*   "value"       an exposed property
\*   "lazy"        an exposed property whose getter returns a generator
\*   "broken"      an exposed property whose getter raises ValueError
\*   "secret"      a property that is not exposed
\*   "_hidden"     a property with a private name whose getter and setter are
\*                 exposed functions: `_hidden = property(peek, poke)` in a
\*                 class decorated with @expose
\*   "limit"       plain class data
Methods == {"one", "two", "iter", "view", "fail", "drop", "cb", "relay", "private"}
Properties == {"value", "lazy", "broken", "secret"}
Value(name) == [value |-> name]
Generator == [pos |-> 0, n |-> MaxItems, err |-> "StopIteration"]
ForeignMessage == [seq |-> 0, serializer_id |-> Marshal]
Raises(name) ==
    CASE name \in {"fail", "cb", "broken"} -> Exc("ValueError", name)
      [] name = "relay" -> [Exc("ProtocolError", name) EXCEPT !.pyroMsg = <<ForeignMessage>>]
      [] name = "drop" -> Exc("ConnectionClosedError", name)
      [] name \in {"private", "secret"} -> Exc("AttributeError", name)
      [] OTHER -> NoExc
DictView == [view |-> "keys"]
Returns(name) ==
    IF name \in {"iter", "lazy"} THEN Generator
    ELSE IF name = "view" THEN DictView ELSE Value(name)
\* `isinstance(data, collections.Iterator) or inspect.isgenerator(data)`, line
\* 806: a dict view is iterable but has no __next__, it is no Iterator
IsIterator(data) == data = Generator
\* `type(data) in self.__lazy_dict_iterator_types`, lines 798-803 and 808
IsLazyDictIterator(data) == data = DictView

\* What getattr(obj.__class__, propname) finds, lines 906 and 919: a property
\* with its accessors fget and fset (each absent, or a function with or
\* without the _pyroExposed tag), another attribute of the class, or nothing.
ClassAttribute(propname) ==
    CASE propname \in {"value", "_hidden"} -> [kind |-> "property", fget |-> "exposed", fset |-> "exposed"]
      [] propname \in {"lazy", "broken"} -> [kind |-> "property", fget |-> "exposed", fset |-> "none"]
      [] propname = "secret" -> [kind |-> "property", fget |-> "unexposed", fset |-> "unexposed"]
      [] propname = "limit" -> [kind |-> "data"]
      [] propname \in Methods -> [kind |-> "function"]
      [] OTHER -> [kind |-> "missing"]
\* the names a client asks for as attributes
AttributeNames == Properties \cup {"_hidden", "limit", "one", "nothing"}
\* is_private_attribute(attr_name), lines 47-55: the names with a leading
\* underscore that are no dunder names
is_private_attribute(attr_name) == attr_name \in {"_hidden"}
\* `v.fget or v.fset or v.fdel`, lines 877 and 921
FirstAccessor(v) == IF v.fget # "none" THEN v.fget ELSE v.fset
\* get_exposed_members(obj)["attrs"], lines 866-878, with only_exposed
attrs ==
    {m \in AttributeNames :
        /\ ~is_private_attribute(m)
        /\ ClassAttribute(m).kind = "property"
        /\ FirstAccessor(ClassAttribute(m)) = "exposed"}
\* get_exposed_property_value(obj, propname) gets as far as `v.fget(obj)`,
\* lines 906-909; otherwise it raises AttributeError
GetterRuns(propname) ==
    LET v == ClassAttribute(propname)
    IN  v.kind = "property" /\ v.fget = "exposed"
\* set_exposed_property_value(obj, propname, value) gets as far as
\* `v.fset(obj, value)`, lines 919-922; otherwise it raises AttributeError
SetterRuns(propname) ==
    LET v == ClassAttribute(propname)
    IN  v.kind = "property" /\ v.fset # "none" /\ FirstAccessor(v) = "exposed"

\* futures._ExceptionWrapper(xv), line 458
_ExceptionWrapper(xv) == [wrapped |-> xv]

\* serializer.serializeData(data) succeeds: a generator does not serialize,
\* alone or as an item of the result list of a batch; a dict view is written
\* as the list of its elements
Serializable(data, wasBatched) ==
    IF wasBatched THEN \A i \in DOMAIN data : data[i] # Generator ELSE data # Generator

\* The INVOKE and PING messages of a client, and "<closed>" for a recv_stub
\* that raises ConnectionClosedError.  The payload of an INVOKE is the call
\* (objId, method, vargs); vargs is the list of item methods for a batch and
\* the property name for __getattr__ and __setattr__.  fault names the one
\* step that raises if it is reached: bad CORR bytes, or a payload that does
\* not deserialize.
Batches == UNION {[1..n -> {"one", "fail", "private"}] : n \in 0..MaxBatch}
PlainCalls ==
    [method : Methods, vargs : {<< >>}]
        \cup [method : {"__getattr__"}, vargs : {<<name>> : name \in Properties}]
        \cup [method : {"__setattr__"}, vargs : {<<"value">>, <<"secret">>}]
InvokeMessages(seq) ==
    LET Msg(flags, serializers, ids, faults, calls) ==
           { [type |-> "INVOKE", seq |-> seq, flags |-> f, serializer_id |-> ser,
              objId |-> id, fault |-> fault, corr |-> "none", method |-> call.method,
              vargs |-> call.vargs] :
                f \in flags, ser \in serializers, id \in ids, fault \in faults,
                call \in calls }
        Property == [method : {"__getattr__"}, vargs : {<<"value">>}]
        Batch == [method : {"<batch>"}, vargs : {<<"one">>}]
    IN  \* calls that reach the registered object
        Msg({{}, {"ONEWAY"}}, {"serpent"}, {"a"}, {"none"}, PlainCalls)
            \cup Msg({{"BATCH"}}, {"serpent"}, {"a"}, {"none"},
                     [method : {"<batch>"}, vargs : Batches])
            \cup Msg({{"BATCH", "ONEWAY"}}, {"serpent"}, {"a"}, {"none"},
                     [method : {"<batch>"}, vargs : {b \in Batches : Len(b) <= 1}])
        \* calls for the class and for an unknown object
            \cup Msg({{}, {"ONEWAY"}}, {"serpent"}, {"k", "gone"}, {"none"},
                     Property \cup [method : {"one"}, vargs : {<< >>}])
            \cup Msg({{"BATCH"}}, {"serpent"}, {"k", "gone"}, {"none"}, Batch)
        \* calls that are stopped before the lookup
            \cup Msg({{}, {"ONEWAY"}}, SerializerIds, {"a", "k"}, {"none"}, Property)
            \cup Msg({{"BATCH"}}, SerializerIds, {"a"}, {"none"}, Batch)
            \cup Msg({{}, {"ONEWAY"}}, {"serpent", "json"}, {"a"}, {"CORR", "deserialize"},
                     Property)
            \cup Msg({{"BATCH"}}, {"serpent"}, {"a"}, {"CORR", "deserialize"}, Batch)
RequestMessages(seq) ==
    InvokeMessages(seq)
        \cup [type : {"PING"}, seq : {seq}, flags : {{}}, serializer_id : {"serpent", "json"},
              objId : {"a"}, fault : {"none"}, corr : {"none"}, method : {"one"},
              vargs : {<< >>}]
        \cup [type : {"<closed>"}, seq : {seq}, flags : {{}}, serializer_id : {Marshal},
              objId : {"a"}, fault : {"none"}, corr : {"none"}, method : {"one"},
              vargs : {<< >>}]

\* a variant of Oneway for which no request is oneway
Oneway_never(msg) == FALSE
\* request_flags & protocol.FLAGS_ONEWAY, lines 473, 479, 492 and 514
Oneway(msg) == "ONEWAY" \in msg.flags

\* a variant of Answerable under which no exception is reported to the client
Answerable_never(xv) == FALSE
\* line 515: the exception is one to report to the client
Answerable(xv) == xv.cls = "SerializationError" \/ xv.cls \notin CommunicationErrors

\* a variant of ExceptionResponse that leaves the sequence number 0
ExceptionResponse_seq0(seq, serializer_id, exc_value, flags, annotations) ==
    SendingMessage("RESULT", flags \cup {"EXCEPTION"}, 0, serializer_id, exc_value,
                   annotations)
\* Daemon._sendExceptionResponse, lines 612-633: the message it sends
ExceptionResponse(seq, serializer_id, exc_value, flags, annotations) ==
    SendingMessage("RESULT", flags \cup {"EXCEPTION"}, seq, serializer_id, exc_value,
                   annotations)

\* where the try block of handleRequest is left, lines 414-504: the exception
\* that left it (NoExc when it did not raise), the steps taken in order, the
\* messages sent inside it, whether it executed `return`, and the locals
\* data, wasBatched and isCallback.  stream is the generator kept for
\* streaming, if any.
Left(x, did, sent, return, data, wasBatched, isCallback, stream) ==
    [x |-> x, did |-> did, sent |-> sent, return |-> return, data |-> data,
     wasBatched |-> wasBatched, isCallback |-> isCallback, stream |-> stream]
Unset == [unset |-> TRUE]
StepRaises(x, did) == Left(x, did, << >>, FALSE, Unset, FALSE, FALSE, Idle)

\* the loop over the items of a batch, lines 450-461
RECURSIVE BatchLoop(_, _, _)
BatchLoop(items, data, did) ==
    IF items = << >> THEN Left(NoExc, did, << >>, FALSE, data, TRUE, FALSE, Idle)
    ELSE LET method == Head(items)
         IN  IF ~Bound("util") THEN StepRaises(NameError("util"), did)
             ELSE IF method = "private"
             THEN StepRaises(Raises(method), Append(did, "getAttribute"))
             ELSE LET called == did \o <<"getAttribute", "call:" \o method>>
                  IN  IF Raises(method) # NoExc
                      THEN IF ~Bound("futures") THEN StepRaises(NameError("futures"), called)
                           ELSE Left(NoExc, called, << >>, FALSE,
                                     Append(data, _ExceptionWrapper(Raises(method))),
                                     TRUE, FALSE, Idle)
                      ELSE BatchLoop(Tail(items), Append(data, Returns(method)), called)

\* a normal single method call, lines 464-488
SingleCall(msg, did, ctx) ==
    LET oneway == Oneway(msg)
        method == msg.method
    IN  IF method \in {"__getattr__", "__setattr__"}
        THEN LET propname == msg.vargs[1]
                 runs == IF method = "__getattr__" THEN GetterRuns(propname)
                         ELSE SetterRuns(propname)
             IN  IF ~runs THEN StepRaises(Exc("AttributeError", propname), did)
                 ELSE IF Raises(propname) # NoExc
                 THEN StepRaises(Raises(propname), Append(did, "call:" \o propname))
                 ELSE Left(NoExc, Append(did, "call:" \o propname), << >>, FALSE,
                           IF method = "__getattr__" THEN Returns(propname)
                           ELSE Value("None"),
                           FALSE, FALSE, Idle)
        ELSE IF ~Bound("util") THEN StepRaises(NameError("util"), did)
        ELSE IF method = "private"
        THEN StepRaises(Raises(method), Append(did, "getAttribute"))
        ELSE IF oneway /\ reqCfg.ONEWAY_THREADED
        THEN Left(NoExc, did \o <<"getAttribute", "thread:" \o method>>, << >>, FALSE,
                  Unset, FALSE, FALSE, Idle)
        ELSE LET called == did \o <<"getAttribute", "call:" \o method>>
                 isCallback == method = "cb"
                 data == Returns(method)
             IN  IF Raises(method) # NoExc
                 THEN Left(Raises(method), called, << >>, FALSE, Unset, FALSE, isCallback, Idle)
                 ELSE IF ~oneway /\ IsIterator(data) /\ reqCfg.ITER_STREAMING
                                 /\ IsLazyDictIterator(data)
                 THEN Left(Exc("PyroError", "won't serialize or stream lazy dict iterators"),
                           Append(called, "_streamResponse"), << >>, FALSE, Unset, FALSE,
                           isCallback, Idle)
                 ELSE IF ~oneway /\ IsIterator(data)
                 THEN LET exc == Exc("ProtocolError", "result of call is an iterator")
                          ann == IF reqCfg.ITER_STREAMING
                                 THEN ("STRM" :> nextStreamId) ELSE << >>
                      IN  Left(NoExc, Append(called, "_streamResponse"),
                               <<ExceptionResponse(msg.seq, msg.serializer_id, exc,
                                                   {"ITEMSTREAMRESULT"},
                                                   ann @@ Daemon_annotations(ctx))>>,
                               TRUE, Unset, FALSE, isCallback,
                               IF reqCfg.ITER_STREAMING THEN data ELSE Idle)
                 ELSE Left(NoExc,
                           IF oneway THEN called ELSE Append(called, "_streamResponse"),
                           << >>, FALSE, data, FALSE, isCallback, Idle)

\* the try block of handleRequest for the received message msg, lines 414-504;
\* ctx is the correlation id of the context once lines 418-421 are done
Dispatch(msg, ctx) ==
    IF msg.fault = "CORR"
    THEN StepRaises(Exc("ValueError", "bytes is not a 16-char string"), << >>)
    ELSE IF msg.type = "PING"
    THEN Left(NoExc, << >>,
              <<SendingMessage("PING", {}, msg.seq, msg.serializer_id, "pong",
                               Daemon_annotations(ctx))>>,
              TRUE, Unset, FALSE, FALSE, Idle)
    ELSE IF ~Accepted(msg.serializer_id)
    THEN StepRaises(Exc("SerializationError", "message used serializer that is not accepted"),
                    << >>)
    ELSE IF msg.fault = "deserialize"
    THEN StepRaises(Exc("SerializationError", "cannot deserialize"), <<"deserializeCall">>)
    ELSE IF msg.objId \notin DOMAIN objectsById
    THEN StepRaises(Exc("DaemonError", "unknown object"), <<"deserializeCall", "lookup">>)
    ELSE LET did == IF isclass(objectsById[msg.objId])
                    THEN <<"deserializeCall", "lookup", "_getInstance">>
                    ELSE <<"deserializeCall", "lookup">>
             t == IF "BATCH" \in msg.flags THEN BatchLoop(msg.vargs, << >>, did)
                  ELSE SingleCall(msg, did, ctx)
         IN  IF t.x # NoExc \/ t.return \/ Oneway(msg) THEN t
             ELSE IF ~Serializable(t.data, t.wasBatched)
             THEN StepRaises(Exc("SerializationError", "unsupported serialized class"),
                             Append(t.did, "serializeData"))
             ELSE [t EXCEPT !.did = Append(@, "serializeData"),
                            !.sent = <<SendingMessage("RESULT",
                                           IF t.wasBatched THEN {"BATCH"} ELSE {},
                                           msg.seq, msg.serializer_id, t.data,
                                           Daemon_annotations(ctx))>>]

\* the except clause of handleRequest, lines 505-520, entered with exception
\* xv, the correlation id of the context being ctx: the messages it sends and
\* how handleRequest ends
Except(msg, xv, isCallback, ctx) ==
    LET from == IF xv.pyroMsg # << >> THEN xv.pyroMsg[1] ELSE msg
        request_seq == from.seq
        request_serializer_id == from.serializer_id
        answers == /\ xv.cls # "ConnectionClosedError"
                   /\ ~Oneway(msg)
                   /\ Answerable(xv)
        reraise == isCallback \/ xv.cls \in CommunicationErrors \cup {"SecurityError"}
    IN  IF answers /\ request_serializer_id \notin KnownSerializerIds
        THEN [sent |-> << >>, res |-> Raised("SerializationError")]
        ELSE [sent |-> IF answers
                       THEN <<ExceptionResponse(request_seq, request_serializer_id, xv,
                                                {}, Daemon_annotations(ctx))>>
                       ELSE << >>,
              res |-> IF reraise THEN Raised(xv.cls) ELSE Ok("None")]

\* Daemon.handleRequest(conn), lines 397-520, for the next message of an
\* open connection, with Daemon._getInstance (lines 598-604) for a class in
\* session mode and Daemon._streamResponse (lines 805-814).
handleRequest(c, msg) ==
    /\ connState[c] = "open"
    /\ msg.seq = nextSeq
    /\ nextSeq <= MaxRequests
    /\ nextSeq' = nextSeq + 1
    /\ IF msg.type = "<closed>"
       THEN /\ handled' = Handled("request", c, "None", msg, << >>,
                                  Exc("ConnectionClosedError", "connection closed"),
                                  << >>, Raised("ConnectionClosedError"))
            /\ UNCHANGED <<traffic, streaming_responses, nextStreamId, connInstances,
                           nextInstance, createdBy, correlation_id>>
       ELSE LET ctx == IF msg.fault = "CORR" THEN correlation_id[Thread(c)]
                       ELSE CorrelationId(msg)
                t == Dispatch(msg, ctx)
                e == IF t.x = NoExc THEN [sent |-> << >>, res |-> Ok("None")]
                     ELSE Except(msg, t.x, t.isCallback, ctx)
                sent == t.sent \o e.sent
                creates == /\ \E i \in DOMAIN t.did : t.did[i] = "_getInstance"
                           /\ Not(Get(connInstances[c], RequestClass))
            IN  /\ handled' = Handled("request", c, "None", msg, t.did, t.x, sent, e.res)
                /\ traffic' = [traffic EXCEPT ![c] = Logged(@, msg, sent)]
                /\ correlation_id' = [correlation_id EXCEPT ![Thread(c)] = ctx]
                /\ IF t.stream # Idle
                   THEN /\ streaming_responses' =
                              StreamRegistered(streaming_responses, nextStreamId, c, t.stream)
                        /\ nextStreamId' = nextStreamId + 1
                   ELSE UNCHANGED <<streaming_responses, nextStreamId>>
                /\ IF creates
                   THEN /\ createdBy' = Append(createdBy, [clazz |-> RequestClass, conn |-> c])
                        /\ nextInstance' = nextInstance + 1
                        /\ connInstances' =
                              [connInstances EXCEPT ![c] = Put(@, RequestClass, nextInstance)]
                   ELSE UNCHANGED <<connInstances, nextInstance, createdBy>>
    /\ UNCHANGED connState
    /\ ReqFrame

\* ------------------------------------------------------------ specifications

\* Daemon.__init__, lines 228-231
InitReg(natLocations) ==
    /\ objectsById = Constructed.objectsById
    /\ pyroId = Constructed.pyroId
    /\ pyroDaemon = Constructed.pyroDaemon
    /\ nextObjId = 1
    /\ natLocationStr \in natLocations
    /\ lastCall = NoCall
    /\ thr = [start |-> Constructed, th |-> << >>]

InitInst ==
    /\ pyroInstances = << >>
    /\ connInstances = [c \in Conns |-> << >>]
    /\ nextInstance = 1
    /\ createdBy = << >>
    /\ worker = [c \in Conns |-> IdleWorker]

\* no message was received yet
InitQuiet ==
    /\ reqCfg = [ITER_STREAMING |-> TRUE, ONEWAY_THREADED |-> FALSE, SERVERTYPE |-> "thread"]
    /\ handled = NoMessage
    /\ traffic = [c \in Conns |-> NoTraffic]
    /\ nextSeq = 1
    /\ correlation_id = [t \in Conns |-> "None"]

\* the daemon after construction, under each setting of the stream
\* configuration (0 disables the linger and the lifetime rule)
InitCfg == InitStream({0, 1}, {0, 1}) /\ InitInst /\ InitReg({"None"}) /\ InitQuiet


\* the daemon after construction, with the stream rules disabled and no NAT
Init == InitStream({0}, {0}) /\ InitInst /\ InitReg({"None"}) /\ InitQuiet

\* the daemon with a NAT location, as the threads are about to make their calls
InitRegPar == InitStream({0}, {0}) /\ InitInst /\ InitPar({"nathost:2"}) /\ InitQuiet

SpecStream == InitCfg /\ [][NextStream]_vars

SpecShutdown == InitCfg /\ [][NextShutdown]_vars

SpecInst == Init /\ [][NextInst]_vars

SpecReg == Init /\ [][NextReg]_vars

\* the daemon after construction, with and without a NAT location
InitNat == InitStream({0}, {0}) /\ InitInst /\ InitReg({"None", "nathost:2"}) /\ InitQuiet

SpecRegNat == InitNat /\ [][NextRegNat]_vars

SpecRegPar == InitRegPar /\ [][NextRegPar]_vars

\* The daemon with the object "a" and the class "k" registered, no client
\* connected yet, with ITER_STREAMING enabled and oneway calls run in the
\* worker, or with ITER_STREAMING disabled and oneway calls run in threads.
InitRequest ==
    /\ InitStream({0}, {0})
    /\ InitInst
    /\ objectsById = (DAEMON_NAME :> DaemonObj) @@ ("a" :> 1) @@ ("k" :> RequestClassTarget)
    /\ pyroId = [x \in Targets |-> IF x = 1 THEN "a"
                                  ELSE IF x = RequestClassTarget THEN "k" ELSE NoAttr]
    /\ pyroDaemon = [x \in Targets |-> x \in {1, RequestClassTarget}]
    /\ nextObjId = 1
    /\ natLocationStr = "None"
    /\ lastCall = NoCall
    /\ thr = [start |-> Constructed, th |-> << >>]
    /\ reqCfg \in [ITER_STREAMING : BOOLEAN, ONEWAY_THREADED : BOOLEAN,
                    SERVERTYPE : {"thread"}]
    /\ reqCfg.ITER_STREAMING # reqCfg.ONEWAY_THREADED
    /\ handled = NoMessage
    /\ traffic = [c \in Conns |-> NoTraffic]
    /\ nextSeq = 1
    /\ correlation_id = [t \in Conns |-> "None"]

\* Each connection is handled by one worker: first the handshake, then one
\* request after the other.
NextRequest ==
    \/ \E c \in Conns, msg \in ConnectMessages(nextSeq) :
          \E denied_reason \in DeniedReasons(msg) : _handshake(c, denied_reason, msg)
    \/ \E c \in Conns, msg \in RequestMessages(nextSeq) : handleRequest(c, msg)

SpecRequest == InitRequest /\ [][NextRequest]_vars

\* Clients that use correlation ids: the daemon with the object "a"
\* registered, under the thread pool server or the multiplexed server.
InitCorr ==
    /\ InitStream({0}, {0})
    /\ InitInst
    /\ objectsById = (DAEMON_NAME :> DaemonObj) @@ ("a" :> 1)
    /\ pyroId = [x \in Targets |-> IF x = 1 THEN "a" ELSE NoAttr]
    /\ pyroDaemon = [x \in Targets |-> x = 1]
    /\ nextObjId = 1
    /\ natLocationStr = "None"
    /\ lastCall = NoCall
    /\ thr = [start |-> Constructed, th |-> << >>]
    /\ reqCfg \in [ITER_STREAMING : {TRUE}, ONEWAY_THREADED : {FALSE},
                    SERVERTYPE : {"thread", "multiplex"}]
    /\ handled = NoMessage
    /\ traffic = [c \in Conns |-> NoTraffic]
    /\ nextSeq = 1
    /\ correlation_id = [t \in Conns |-> "None"]

\* The handlers run one at a time, in any order over the connections.
\* The messages are well-formed connects and calls of the object "a", with a
\* CORR annotation or without one, and the close of a connection.
NextCorr ==
    \/ \E c \in Conns, k \in CorrIds \cup {"none"}, m \in ConnectMessages(nextSeq) :
          /\ m.object = "a"
          /\ m.fault = "none"
          /\ m.serializer_id \in {"serpent", "json"}
          /\ \E denied_reason \in DeniedReasons(m) :
                _handshake(c, denied_reason, [m EXCEPT !.corr = k])
    \/ \E c \in Conns, k \in CorrIds \cup {"none"}, m \in RequestMessages(nextSeq) :
          /\ m.objId = "a"
          /\ m.fault = "none"
          /\ m.serializer_id = "serpent"
          /\ m.flags = {}
          /\ m.method \in {"one", "__getattr__"}
          /\ m.vargs \in {<< >>, <<"value">>}
          /\ handleRequest(c, [m EXCEPT !.corr = k])
    \/ \E c \in Conns, m \in RequestMessages(nextSeq) :
          m.type = "<closed>" /\ handleRequest(c, m)

SpecCorr == InitCorr /\ [][NextCorr]_vars

\* The requests of clients that read and write attributes of the registered
\* object "a" and of an instance of the registered class "k".
PropertyMessages(seq) ==
    [type : {"INVOKE"}, seq : {seq}, flags : {{}, {"ONEWAY"}}, serializer_id : {"serpent"},
     objId : {"a", "k"}, fault : {"none"}, corr : {"none"},
     method : {"__getattr__", "__setattr__"}, vargs : {<<name>> : name \in AttributeNames}]

NextProperty ==
    \/ \E c \in Conns, msg \in ConnectMessages(nextSeq) :
          /\ msg.type = "CONNECT" /\ msg.fault = "none" /\ Accepted(msg.serializer_id)
          /\ _handshake(c, "None", msg)
    \/ \E c \in Conns, msg \in PropertyMessages(nextSeq) : handleRequest(c, msg)

SpecProperty == InitRequest /\ [][NextProperty]_vars

\* ----------------------------------------- stream calls of concurrent workers

\* DaemonObject.get_next_stream_item holds no lock (lines 175-186): its
\* statements are steps of the worker of connection c, and the handlers of
\* other workers and of the housekeeper run between them.

\* reader[c] holds the statement the worker of c is at (pc), the stream id and
\* the tuple it read (sid, info), and how its last call ended (out).

StreamParFrame == UNCHANGED <<nextStreamId, now, connState, cfgVars, reply, shutVars,
                              instVars, regVars, reqVars>>

\* line 176-177: `if streamId not in self.daemon.streaming_responses`
get_next_stream_item_test(c, sid) ==
    /\ connState[c] = "open"
    /\ reader[c].pc = "idle"
    /\ reader' = [reader EXCEPT ![c] =
                    IF sid \notin DOMAIN streaming_responses
                    THEN [NotReading EXCEPT !.out = Returned("error", "item stream terminated", FALSE)]
                    ELSE [pc |-> "lookup", sid |-> sid, info |-> None, out |-> NoReply]]
    /\ UNCHANGED <<streaming_responses, ended>>
    /\ StreamParFrame

\* line 178: `client, timestamp, linger_timestamp, stream =
\* self.daemon.streaming_responses[streamId]`
get_next_stream_item_lookup(c) ==
    /\ reader[c].pc = "lookup"
    /\ LET sid == reader[c].sid
       IN  reader' = [reader EXCEPT ![c] =
                        IF sid \notin DOMAIN streaming_responses
                        THEN [NotReading EXCEPT !.out = Returned("error", "KeyError", FALSE)]
                        ELSE IF streaming_responses[sid].client = None
                        THEN [pc |-> "rebind", sid |-> sid, info |-> streaming_responses[sid], out |-> NoReply]
                        ELSE [pc |-> "next", sid |-> sid, info |-> streaming_responses[sid], out |-> NoReply]]
    /\ UNCHANGED <<streaming_responses, ended>>
    /\ StreamParFrame

\* line 179-181: `self.daemon.streaming_responses[streamId] =
\* (core.current_context.client, timestamp, 0, stream)`
get_next_stream_item_rebind(c) ==
    /\ reader[c].pc = "rebind"
    /\ LET sid == reader[c].sid
           info == reader[c].info
       IN  /\ streaming_responses' =
                 [s \in DOMAIN streaming_responses \cup {sid} |->
                     IF s = sid THEN Rebind(info, c) ELSE streaming_responses[s]]
           /\ reader' = [reader EXCEPT ![c] = [pc |-> "next", sid |-> sid, info |-> info, out |-> NoReply]]
    /\ UNCHANGED ended
    /\ StreamParFrame

\* line 182-183: `return next(stream)`; the iterator is the object the entry
\* refers to
get_next_stream_item_next(c) ==
    /\ reader[c].pc = "next"
    /\ LET sid == reader[c].sid
           stream == reader[c].info.stream
       IN  IF HasNext(stream)
           THEN /\ streaming_responses' =
                      IF sid \in DOMAIN streaming_responses
                      THEN [streaming_responses EXCEPT ![sid].stream = Advance(stream)]
                      ELSE streaming_responses
                /\ reader' = [reader EXCEPT ![c] = [NotReading EXCEPT !.out = Returned("item", stream.pos, FALSE)]]
           ELSE /\ reader' = [reader EXCEPT ![c] = [pc |-> "del", sid |-> sid, info |-> reader[c].info, out |-> NoReply]]
                /\ UNCHANGED streaming_responses
    /\ UNCHANGED ended
    /\ StreamParFrame

\* line 184-186: `del self.daemon.streaming_responses[streamId]` and `raise`
get_next_stream_item_del(c) ==
    /\ reader[c].pc = "del"
    /\ LET sid == reader[c].sid
       IN  IF sid \notin DOMAIN streaming_responses
           THEN /\ reader' = [reader EXCEPT ![c] = [NotReading EXCEPT !.out = Returned("error", "KeyError", FALSE)]]
                /\ UNCHANGED <<streaming_responses, ended>>
           ELSE /\ reader' = [reader EXCEPT ![c] = [NotReading EXCEPT !.out = Returned("error", reader[c].info.stream.err, FALSE)]]
                /\ streaming_responses' = DelStream(streaming_responses, sid)
                /\ ended' = ended \cup {sid}
    /\ StreamParFrame

\* One worker per connection, the housekeeper and the clock. A worker handles
\* the requests and the disconnect of its connection one after the other; one
\* worker at a time reads from a stream.
NextStreamPar ==
    \/ \E c \in Conns : Connect(c)
    \/ \E c \in Conns, data \in Iterators : reader[c].pc = "idle" /\ _streamResponse(data, c)
    \/ \E c \in Conns, sid \in StreamIds :
          /\ \A d \in Conns : reader[d].pc = "idle" \/ reader[d].sid # sid
          /\ get_next_stream_item_test(c, sid)
    \/ \E c \in Conns : get_next_stream_item_lookup(c)
    \/ \E c \in Conns : get_next_stream_item_rebind(c)
    \/ \E c \in Conns : get_next_stream_item_next(c)
    \/ \E c \in Conns : get_next_stream_item_del(c)
    \/ \E c \in Conns, sid \in StreamIds : reader[c].pc = "idle" /\ close_stream(c, sid)
    \/ \E c \in Conns : reader[c].pc = "idle" /\ _clientDisconnect(c)
    \/ _housekeeping
    \/ Tick

SpecStreamPar == InitCfg /\ [][NextStreamPar]_vars

\* --------------------------------------- stream calls of oneway-call threads

\* With config.ONEWAY_THREADED a oneway call of get_next_stream_item runs in a
\* thread of its own (lines 473-475), which takes over the context of the
\* worker and so its client (lines 826-829); the worker goes on with the next
\* message of the connection and with its disconnect.  reader[c] is here the
\* position of the oneway-call thread started for connection c.

\* the daemon after construction, with oneway calls in threads
InitOneway ==
    /\ InitStream({0, 1}, {0, 1})
    /\ InitInst
    /\ InitReg({"None"})
    /\ reqCfg = [ITER_STREAMING |-> TRUE, ONEWAY_THREADED |-> TRUE, SERVERTYPE |-> "thread"]
    /\ handled = NoMessage
    /\ traffic = [c \in Conns |-> NoTraffic]
    /\ nextSeq = 1
    /\ correlation_id = [t \in Conns |-> "None"]

\* _OnewayCallThread(target=method, args=vargs, kwargs=kwargs).start() for a
\* oneway call of get_next_stream_item(sid) over connection c: the thread
\* starts with the test of lines 176-177
_OnewayCallThread(c, sid) ==
    /\ reqCfg.ONEWAY_THREADED
    /\ get_next_stream_item_test(c, sid)

\* The workers of the connections, the oneway-call threads they started (one
\* per connection at a time), the housekeeper and the clock.
NextStreamOneway ==
    \/ \E c \in Conns : Connect(c)
    \/ \E c \in Conns, data \in Iterators : _streamResponse(data, c)
    \/ \E c \in Conns, sid \in StreamIds : _OnewayCallThread(c, sid)
    \/ \E c \in Conns : get_next_stream_item_lookup(c)
    \/ \E c \in Conns : get_next_stream_item_rebind(c)
    \/ \E c \in Conns : get_next_stream_item_next(c)
    \/ \E c \in Conns : get_next_stream_item_del(c)
    \/ \E c \in Conns, sid \in StreamIds : close_stream(c, sid)
    \/ \E c \in Conns : _clientDisconnect(c)
    \/ _housekeeping
    \/ Tick

SpecStreamOneway == InitOneway /\ [][NextStreamOneway]_vars

\* ------------------------------------------------------ stream registry claims

\* C1: once the iterator of a stream was exhausted or raised inside
\* get_next_stream_item(sid), the entry is gone and the caller got the
\* iterator's error; every later get_next_stream_item(sid), from any
\* connection, raises PyroError("item stream terminated"), returns no item and
\* leaves sid out of the registry.
C1_EndedStreamStaysTerminated ==
    [][ /\ \A sid \in ended' : sid \notin DOMAIN streaming_responses'
        /\ \A c \in Conns, sid \in StreamIds :
              get_next_stream_item(c, sid) =>
                 /\ (sid \in DOMAIN streaming_responses
                        /\ ~HasNext(streaming_responses[sid].stream))
                      => /\ sid \in ended'
                         /\ reply'.kind = "error"
                         /\ reply'.val = streaming_responses[sid].stream.err
                 /\ sid \in ended
                      => /\ reply'.kind = "error"
                         /\ reply'.val = "item stream terminated"
                         /\ streaming_responses' = streaming_responses ]_vars

\* a call for an ended stream was answered with the termination error
C1_Witness ==
    /\ ended # {}
    /\ reply.kind = "error"
    /\ reply.val = "item stream terminated"

\* C2: with ITER_STREAM_LINGER > 0 the entries of a disconnecting connection
\* stay, with their iterator where it was; get_next_stream_item from another
\* connection on such an entry returns the next item (the one at the
\* iterator's position), binds the entry to the caller and clears the linger
\* timestamp; a sweep keeps every entry whose linger period has not elapsed
\* (an entry with linger timestamp 0 has none) unless its lifetime is over, and
\* removes an entry whose linger period has elapsed, after which the call
\* raises PyroError("item stream terminated").
C2_LingerResume ==
    [][ /\ \A c \in Conns :
              (_clientDisconnect(c) /\ ITER_STREAM_LINGER > 0) =>
                 \A sid \in DOMAIN streaming_responses :
                    streaming_responses[sid].client = c =>
                       /\ sid \in DOMAIN streaming_responses'
                       /\ streaming_responses'[sid].client = None
                       /\ streaming_responses'[sid].stream = streaming_responses[sid].stream
        /\ \A c \in Conns, sid \in StreamIds :
              get_next_stream_item(c, sid) =>
                 /\ (sid \in DOMAIN streaming_responses
                        /\ streaming_responses[sid].client = None
                        /\ HasNext(streaming_responses[sid].stream))
                      => /\ reply'.kind = "item"
                         /\ reply'.val = streaming_responses[sid].stream.pos
                         /\ streaming_responses'[sid].client = c
                         /\ streaming_responses'[sid].linger_timestamp = 0
                         /\ streaming_responses'[sid].stream.pos =
                               streaming_responses[sid].stream.pos + 1
                 /\ sid \notin DOMAIN streaming_responses
                      => /\ reply'.kind = "error"
                         /\ reply'.val = "item stream terminated"
        /\ (_housekeeping /\ ~mustshutdown) =>
              \A sid \in DOMAIN streaming_responses :
                 LET info == streaming_responses[sid]
                     lingerElapsed ==
                        /\ ITER_STREAM_LINGER > 0
                        /\ info.linger_timestamp > 0
                        /\ now - info.linger_timestamp > ITER_STREAM_LINGER
                     lifetimeElapsed ==
                        /\ ITER_STREAM_LIFETIME > 0
                        /\ now - info.timestamp > ITER_STREAM_LIFETIME
                 IN  /\ lingerElapsed => sid \notin DOMAIN streaming_responses'
                     /\ (~lingerElapsed /\ ~lifetimeElapsed)
                          => /\ sid \in DOMAIN streaming_responses'
                             /\ streaming_responses'[sid] = info ]_vars

\* a second connection resumed a lingering stream after its first item, and
\* time has passed beyond the linger period since
C2_Witness ==
    /\ ITER_STREAM_LINGER > 0
    /\ reply.kind = "item"
    /\ reply.resumed
    /\ reply.val >= 1
    /\ \E sid \in DOMAIN streaming_responses :
          /\ streaming_responses[sid].client # None
          /\ streaming_responses[sid].linger_timestamp = 0
          /\ now - streaming_responses[sid].timestamp > ITER_STREAM_LINGER

Registered(x) ==
    /\ pyroId[x] \notin {NoAttr, ""}
    /\ pyroId[x] \in DOMAIN objectsById
    /\ objectsById[pyroId[x]] = x

\* the last call was register(x, ...) and returned a URI
JustRegistered(x) ==
    /\ lastCall.call.op = "register"
    /\ lastCall.call.target = x
    /\ lastCall.res.ok

\* the last call was unregister(objectOrId)
JustUnregistered(objectOrId) ==
    /\ lastCall.call.op = "unregister"
    /\ lastCall.call.given = objectOrId.given
    /\ lastCall.call.target = objectOrId.target
    /\ lastCall.call.objectId = objectOrId.objectId

\* C7: after any register and unregister calls the reserved id is in the
\* registry and maps to the introspection object made by Daemon.__init__.
C7_IntrospectionObjectStays ==
    /\ DAEMON_NAME \in DOMAIN objectsById
    /\ objectsById[DAEMON_NAME] = DaemonObj

C9_UnregisterScrubs ==
    [][ \A x \in Targets :
           \A objectOrId \in {GivenTarget(x), GivenId(pyroId[x])} :
              (Registered(x) /\ pyroId[x] # DAEMON_NAME /\ unregister(objectOrId))
                 => /\ pyroId[x] \notin DOMAIN objectsById'
                    /\ pyroId'[x] = NoAttr
                    /\ ~pyroDaemon'[x]
                    /\ RegisterRefusal(RegistryState', x, pyroId[x], FALSE) = "" ]_vars

\* C10 as claimed: unregister(x) directly after an unregister(x) that returned
\* raises nothing and changes neither the registry nor the target.
C10_UnregisterTwiceSilent ==
    [][ \A objectOrId \in ObjectsOrIds :
           (JustUnregistered(objectOrId) /\ lastCall.res.ok /\ unregister(objectOrId))
              => /\ lastCall'.res.ok
                 /\ <<objectsById, pyroId, pyroDaemon>>' = <<objectsById, pyroId, pyroDaemon>>
      ]_vars

\* C10 amended: unregister(x) directly after an unregister(x) changes neither
\* the registry nor the target; given an object id it raises nothing, given
\* the target it raises DaemonError("object isn't registered") exactly when the
\* target carries no _pyroId, which is so whenever the first call removed its
\* entry.
C10_UnregisterTwiceNoChange ==
    [][ \A objectOrId \in ObjectsOrIds :
           (JustUnregistered(objectOrId) /\ unregister(objectOrId))
              => /\ <<objectsById, pyroId, pyroDaemon>>' = <<objectsById, pyroId, pyroDaemon>>
                 /\ lastCall'.res.ok <=>
                       ~(objectOrId.given = "target" /\ pyroId[objectOrId.target] = NoAttr)
                 /\ ~lastCall'.res.ok => lastCall'.res.val = "object isn't registered"
                 /\ (objectOrId.given = "target" /\ lastCall.res.ok
                        /\ lastCall.pre # objectsById)
                      => ~lastCall'.res.ok ]_vars

\* a first unregister(x), given the target, removed its entry and its _pyroId
C10_Witness ==
    \E x \in Targets :
       /\ JustUnregistered(GivenTarget(x))
       /\ lastCall.res.ok
       /\ lastCall.pre # objectsById
       /\ pyroId[x] = NoAttr
       /\ DOMAIN objectsById # {DAEMON_NAME}


\* C11: register without force, for a target that carries an object id or
\* under an object id that is in the registry, raises DaemonError and changes
\* neither the registry nor the _pyroId and _pyroDaemon of any target.
C11_RefusedRegisterChangesNothing ==
    [][ \A x \in Targets, id \in CallerIds \cup {NoId} :
           (/\ register(x, id, FALSE)
            /\ \/ pyroId[x] \notin {NoAttr, ""}
               \/ id \in DOMAIN objectsById)
           => /\ ~lastCall'.res.ok
              /\ lastCall'.res.val \in DaemonErrors
              /\ <<objectsById, pyroId, pyroDaemon>>' = <<objectsById, pyroId, pyroDaemon>>
      ]_vars

\* register without force was refused for a target without object id,
\* because the id belongs to another target
C11_Witness ==
    /\ lastCall.call.op = "register"
    /\ ~lastCall.call.force
    /\ ~lastCall.res.ok
    /\ lastCall.res.val = "an object or class is already registered with that id"
    /\ pyroId[lastCall.call.target] = NoAttr
    /\ lastCall.call.objectId \in DOMAIN objectsById
    /\ objectsById[lastCall.call.objectId] \notin {lastCall.call.target, DaemonObj}

InstancesOf(clazz) == {i \in DOMAIN createdBy : createdBy[i].clazz = clazz}

\* C4: of a class in instance mode single whose instances are true in a
\* boolean context, at most one instance is ever made, whatever the
\* interleaving of the workers.
C4_SingleInstanceOnce ==
    \A clazz \in Classes :
        clazz.mode = "single" /\ ~clazz.falsy => Cardinality(InstancesOf(clazz)) <= 1

\* C5: an instance of a class in instance mode session is made for a
\* connection only while none is stored on that connection: the first
\* dispatch makes it and every later dispatch on the connection reuses it.
C5_SessionInstanceReused ==
    [][\A c \in Conns :
          (/\ worker[c].pc = "create"
           /\ worker[c].clazz.mode = "session"
           /\ worker'[c].pc = "store")
          => worker[c].clazz \notin DOMAIN connInstances[c]]_vars

\* ------------------------------------------------ threaded registry claims

\* every thread has made its call
AllDone == \A t \in Threads : thr.th[t].pc = "done"

\* C6: concurrent register/unregister/uriFor calls leave the registry, the
\* attributes of the targets and the results of the calls as some serial order
\* of the same calls does.
C6_Serializable ==
    AllDone =>
       [objectsById |-> objectsById, pyroId |-> pyroId, pyroDaemon |-> pyroDaemon,
        res |-> [t \in Threads |-> thr.th[t].res]]
          \in SerialOutcomes([thr.start EXCEPT !.nextObjId = 1] , [t \in Threads |-> Ok("None")],
                             Threads)


\* ------------------------------------------------ handshake, request claims

\* the daemon sent exactly one message in answer, of the given type
Answered(type) == Len(handled.sent) = 1 /\ handled.sent[1].type = type
\* the handler took the given step
Did(step) == \E i \in DOMAIN handled.did : handled.did[i] = step

\* C13: a handshake reports success exactly when it sent CONNECTOK; CONNECTOK
\* is sent only for an accepted serializer id, a validateHandshake that
\* returned, no denied_reason and a registered object id; in every other
\* case with a CONNECT received the single reply is CONNECTFAIL with the
\* error message string; a connection closed before the CONNECT gets nothing.
C13_HandshakeReplies ==
    handled.kind = "handshake" =>
        LET msg == handled.msg
        IN  /\ handled.res.val <=> Answered("CONNECTOK")
            /\ Answered("CONNECTOK") =>
                  /\ msg.serializer_id \in serializer_ids
                  /\ Did("validateHandshake")
                  /\ msg.fault \notin {"validateHandshake",
                                       "validateHandshake: ConnectionClosedError"}
                  /\ handled.denied = "None"
                  /\ msg.object \in registered
            /\ (msg.type = "CONNECT" /\ ~Answered("CONNECTOK")) =>
                  /\ Answered("CONNECTFAIL")
                  /\ handled.sent[1].data \in STRING
            /\ msg.type = "<closed>" => handled.sent = << >>

\* the last message handled was an INVOKE or a CONNECT whose serializer id is
\* outside the accept-list
RejectedSerializer ==
    /\ handled.kind \in {"handshake", "request"}
    /\ handled.msg.type \in {"INVOKE", "CONNECT"}
    /\ handled.msg.serializer_id \notin serializer_ids

\* C14 as stated: an INVOKE or CONNECT whose serializer id is outside the
\* accept-list fails with SerializationError and the handler takes none of
\* its steps: no deserialization, no validateHandshake, no object lookup, no
\* instance lookup or creation, no method call.
C14_RejectedSerializerFails ==
    RejectedSerializer => handled.x.cls = "SerializationError" /\ handled.did = << >>

\* C14, amended: such a message makes the handler take none of its steps; it
\* fails with SerializationError, except that a CONNECT handled with a
\* denied_reason fails with that reason and an INVOKE with a malformed CORR
\* annotation fails with the ValueError of uuid.UUID, both raised before the
\* serializer id is tested.
C14_RejectedSerializerStopsEarly ==
    RejectedSerializer =>
        /\ handled.did = << >>
        /\ handled.x.cls =
              IF handled.denied # "None" THEN "Exception"
              ELSE IF handled.msg.type = "INVOKE" /\ handled.msg.fault = "CORR"
              THEN "ValueError"
              ELSE "SerializationError"

\* an INVOKE for the registered class with a serializer id that is not
\* accepted was answered with the SerializationError; no instance was made
C14_Witness ==
    /\ RejectedSerializer
    /\ handled.msg.type = "INVOKE"
    /\ handled.msg.objId = "k"
    /\ Answered("RESULT")
    /\ handled.sent[1].data.cls = "SerializationError"
    /\ connInstances[handled.conn] = << >>

\* C15: every reply carries the sequence number of the message it answers:
\* CONNECTOK and CONNECTFAIL the one of the CONNECT, the PING reply the one
\* of the PING, sent without taking any deserialization step, and every
\* RESULT the one of the INVOKE.
C15_ReplyCarriesRequestSeq ==
    /\ handled.kind \in {"handshake", "request"} =>
          \A i \in DOMAIN handled.sent :
             /\ handled.msg.type = "CONNECT" =>
                   /\ handled.sent[i].type \in {"CONNECTOK", "CONNECTFAIL"}
                   /\ handled.sent[i].seq = handled.msg.seq
             /\ handled.msg.type = "PING" =>
                   /\ handled.sent[i].type = "PING"
                   /\ handled.sent[i].seq = handled.msg.seq
                   /\ handled.did = << >>
             /\ handled.msg.type = "INVOKE" =>
                   /\ handled.sent[i].type = "RESULT"
                   /\ handled.sent[i].seq = handled.msg.seq
    /\ \A c \in Conns : \A i \in DOMAIN traffic[c].results :
          \E j \in DOMAIN traffic[c].asked : traffic[c].results[i] = traffic[c].asked[j]

\* the second INVOKE of a connection failed and was answered with an
\* exception RESULT of its sequence number, after a first one was answered
C15_Witness ==
    /\ handled.kind = "request"
    /\ handled.msg.type = "INVOKE"
    /\ handled.x # NoExc
    /\ Answered("RESULT")
    /\ "EXCEPTION" \in handled.sent[1].flags
    /\ handled.sent[1].seq = handled.msg.seq
    /\ Len(traffic[handled.conn].results) = 2

\* the step just taken handled an INVOKE
InvokeHandled == handled' # handled /\ handled'.kind = "request" /\ handled'.msg.type = "INVOKE"

\* C16: for an INVOKE with the ONEWAY flag the daemon sends no message,
\* however the call ends, and it registers no stream entry.
C16_OnewayNeverAnswered ==
    [][ (InvokeHandled /\ "ONEWAY" \in handled'.msg.flags)
           => /\ handled'.sent = << >>
              /\ traffic'[handled'.conn].results = traffic[handled'.conn].results
              /\ streaming_responses' = streaming_responses ]_vars

\* a oneway INVOKE read a property whose getter returned a generator: the
\* getter ran, nothing was sent and no stream entry exists
C16_Witness ==
    /\ handled.kind = "request"
    /\ handled.msg.type = "INVOKE"
    /\ "ONEWAY" \in handled.msg.flags
    /\ handled.msg.vargs = <<"lazy">>
    /\ Did("call:lazy")
    /\ handled.sent = << >>
    /\ streaming_responses = << >>

\* the sequence s with the elements outside keep left out
Only(s, keep) == SelectSeq(s, LAMBDA e : e \in keep)
Elements(s) == {s[i] : i \in DOMAIN s}

\* C17: on a connection each INVOKE without the ONEWAY flag gets at most one
\* RESULT, exactly one when handleRequest returns normally, and the RESULTs
\* of the connection are sent in the order in which the INVOKEs came.
C17_OneResultInOrder ==
    /\ (handled.kind = "request" /\ handled.msg.type = "INVOKE"
            /\ "ONEWAY" \notin handled.msg.flags) =>
          /\ Len(handled.sent) <= 1
          /\ handled.res.ok => Answered("RESULT")
    /\ \A c \in Conns :
          traffic[c].results = Only(traffic[c].asked, Elements(traffic[c].results))

\* a connection got the RESULTs of two INVOKEs, the later one an exception
\* RESULT, after which handleRequest returned normally
C17_Witness ==
    /\ handled.kind = "request"
    /\ handled.msg.type = "INVOKE"
    /\ "ONEWAY" \notin handled.msg.flags
    /\ handled.x # NoExc
    /\ handled.res.ok
    /\ Len(traffic[handled.conn].asked) = 2
    /\ traffic[handled.conn].results = traffic[handled.conn].asked

\* the last message handled was a batch INVOKE for a registered object that
\* got as far as the loop over its items
BatchHandled ==
    /\ handled.kind = "request"
    /\ handled.msg.type = "INVOKE"
    /\ "BATCH" \in handled.msg.flags
    /\ handled.msg.serializer_id \in serializer_ids
    /\ handled.msg.fault = "none"
    /\ handled.msg.objId \in registered

\* the items of a batch up to the first one that fails, that one included
RECURSIVE UpToFailure(_)
UpToFailure(items) ==
    IF items = << >> THEN << >>
    ELSE IF Raises(Head(items)) # NoExc THEN <<Head(items)>>
    ELSE <<Head(items)>> \o UpToFailure(Tail(items))

\* the result list a batch is to produce: the results of its items in order,
\* with the wrapped exception of the first failing item as the last element
ResultList(items) ==
    [i \in DOMAIN UpToFailure(items) |->
        IF Raises(items[i]) # NoExc THEN _ExceptionWrapper(Raises(items[i]))
        ELSE Returns(items[i])]

\* the method calls the handler made, in order
MethodCalls == SelectSeq(handled.did, LAMBDA step : step \in {"call:" \o m : m \in Methods})

\* C18: the items of a batch whose methods resolve are invoked in request
\* order, up to the first one that raises and no further; the result list
\* holds their results in that order and the wrapped exception last.
C18_BatchInOrder ==
    (BatchHandled /\ \A i \in DOMAIN handled.msg.vargs : handled.msg.vargs[i] # "private") =>
        /\ MethodCalls = [i \in DOMAIN UpToFailure(handled.msg.vargs) |->
                       "call:" \o handled.msg.vargs[i]]
        /\ (Answered("RESULT") /\ "BATCH" \in handled.sent[1].flags) =>
              handled.sent[1].data = ResultList(handled.msg.vargs)

\* C19: a batch INVOKE without the ONEWAY flag for a registered object gets
\* exactly one RESULT with the BATCH flag whose payload is the list of the
\* results so far, followed by the wrapped error when an item failed, also
\* when the method of the item could not be resolved.
C19_BatchAnsweredWithList ==
    (BatchHandled /\ "ONEWAY" \notin handled.msg.flags) =>
        /\ Answered("RESULT")
        /\ "BATCH" \in handled.sent[1].flags
        /\ "EXCEPTION" \notin handled.sent[1].flags
        /\ handled.sent[1].data = ResultList(handled.msg.vargs)

\* the step just taken handled a normal call, neither oneway nor batch, of
\* the method of a registered object that returns a generator, with
\* ITER_STREAMING enabled
GeneratorCallHandled ==
    /\ InvokeHandled
    /\ handled'.msg.flags = {}
    /\ handled'.msg.serializer_id \in serializer_ids
    /\ handled'.msg.fault = "none"
    /\ handled'.msg.objId \in registered
    /\ handled'.msg.method = "iter"
    /\ reqCfg.ITER_STREAMING

\* C20: such a call adds exactly one stream entry, for the calling connection
\* and with linger timestamp 0, under a stream id that was never issued
\* before; the single reply is a RESULT with the EXCEPTION and
\* ITEMSTREAMRESULT flags that carries ProtocolError("result of call is an
\* iterator") and the stream id as STRM annotation.
C20_GeneratorBecomesStream ==
    [][ GeneratorCallHandled =>
          \E sid \in DOMAIN streaming_responses' \ DOMAIN streaming_responses :
             /\ DOMAIN streaming_responses' = DOMAIN streaming_responses \cup {sid}
             /\ sid >= nextStreamId
             /\ streaming_responses'[sid].client = handled'.conn
             /\ streaming_responses'[sid].linger_timestamp = 0
             /\ Len(handled'.sent) = 1
             /\ handled'.sent[1].type = "RESULT"
             /\ {"EXCEPTION", "ITEMSTREAMRESULT"} \subseteq handled'.sent[1].flags
             /\ handled'.sent[1].data.cls = "ProtocolError"
             /\ handled'.sent[1].data.text = "result of call is an iterator"
             /\ handled'.sent[1].annotations =
                   ("STRM" :> sid) @@ Daemon_annotations(CorrelationId(handled'.msg)) ]_vars

\* ------------------------------------------------ disconnect, sweep claims

\* the step just taken is the disconnect handling of connection c
DisconnectHandled(c) == connState[c] = "open" /\ connState'[c] = "closed"

\* C26: disconnect handling of connection c changes only the stream entries
\* whose client is c: with ITER_STREAM_LINGER = 0 exactly those are removed,
\* with ITER_STREAM_LINGER > 0 each of them keeps its stream id, timestamp and
\* iterator and gets no client and the linger timestamp now; every entry of
\* another connection or without client stays as it is.
C26_DisconnectTouchesOwnEntries ==
    [][ \A c \in Conns : DisconnectHandled(c) =>
          \A sid \in DOMAIN streaming_responses :
             LET info == streaming_responses[sid]
             IN  IF info.client # c
                 THEN /\ sid \in DOMAIN streaming_responses'
                      /\ streaming_responses'[sid] = info
                 ELSE IF ITER_STREAM_LINGER = 0
                 THEN sid \notin DOMAIN streaming_responses'
                 ELSE /\ sid \in DOMAIN streaming_responses'
                      /\ streaming_responses'[sid].timestamp = info.timestamp
                      /\ streaming_responses'[sid].stream = info.stream
                      /\ streaming_responses'[sid].client = None
                      /\ streaming_responses'[sid].linger_timestamp = now ]_vars

\* a connection was closed: an entry of another connection is still bound to
\* it, or an entry lingers since the disconnect
C26_Witness ==
    \E c \in Conns, sid \in DOMAIN streaming_responses :
       /\ connState[c] = "closed"
       /\ \/ /\ streaming_responses[sid].client \in Conns \ {c}
             /\ connState[streaming_responses[sid].client] = "open"
          \/ /\ streaming_responses[sid].client = None
             /\ streaming_responses[sid].linger_timestamp = now

\* the entry is older than ITER_STREAM_LIFETIME, counted from its creation
TooOld(info) == ITER_STREAM_LIFETIME > 0 /\ now - info.timestamp > ITER_STREAM_LIFETIME

\* the entry lingers for longer than ITER_STREAM_LINGER
LingeredTooLong(info) ==
    /\ ITER_STREAM_LINGER > 0
    /\ info.linger_timestamp > 0
    /\ now - info.linger_timestamp > ITER_STREAM_LINGER

\* C27: a housekeeper sweep removes exactly the entries older than
\* ITER_STREAM_LIFETIME (when it is > 0) and the lingering entries whose linger
\* period exceeds ITER_STREAM_LINGER (when it is > 0), and keeps every other
\* entry as it is; the age counts from the creation of the entry, whose
\* timestamp no step changes, reading from the stream included.
C27_SweepRemovesExpired ==
    [][ /\ \A sid \in DOMAIN streaming_responses \cap DOMAIN streaming_responses' :
              streaming_responses'[sid].timestamp = streaming_responses[sid].timestamp
        /\ _housekeeping =>
              /\ DOMAIN streaming_responses' =
                    {sid \in DOMAIN streaming_responses :
                        /\ ~TooOld(streaming_responses[sid])
                        /\ ~LingeredTooLong(streaming_responses[sid])}
              /\ \A sid \in DOMAIN streaming_responses' :
                    streaming_responses'[sid] = streaming_responses[sid] ]_vars

\* what a sweep meets: an entry that was just read from over its open
\* connection and is older than the lifetime, next to the linger rule that
\* does not apply to it
C27_Witness ==
    \E sid \in DOMAIN streaming_responses :
       /\ TooOld(streaming_responses[sid])
       /\ streaming_responses[sid].stream.pos > 0
       /\ reply.kind = "item"
       /\ streaming_responses[sid].client \in Conns
       /\ connState[streaming_responses[sid].client] = "open"
       /\ streaming_responses[sid].linger_timestamp = 0
       /\ ITER_STREAM_LINGER > 0
       /\ ~mustshutdown

\* C28: on a client disconnect the hook clientDisconnect(connection) runs
\* before the registry's disconnect processing: the hook finds every stream
\* entry of the connection in the registry and bound to the connection.
C28_HookBeforeRegistry ==
    [][ \A c \in Conns : DisconnectHandled(c) =>
          \A sid \in DOMAIN streaming_responses :
             streaming_responses[sid].client = c =>
                /\ sid \in DOMAIN AtHook(streaming_responses, c)
                /\ AtHook(streaming_responses, c)[sid].client = c ]_vars

\* ------------------------------------------------ concurrent stream claims

\* the exceptions the iterators of the model raise
IteratorErrors == {stream.err : stream \in Iterators}

\* C25: a get_next_stream_item(sid) that runs concurrently with a sweep, a
\* close_stream or a disconnect that removes sid returns the next item or
\* fails with PyroError("item stream terminated") or with the exception of
\* the iterator, never with another error, and no step puts an entry back
\* under a stream id that was removed.
C25_StreamCallsAtomic ==
    [][ /\ \A c \in Conns :
              reader'[c].out.kind = "error" =>
                 reader'[c].out.val \in {"item stream terminated"} \cup IteratorErrors
        /\ \A sid \in DOMAIN streaming_responses' \ DOMAIN streaming_responses :
              sid = nextStreamId ]_vars

\* ------------------------------------------------------ correlation claims

\* C24: every reply (CONNECTOK, CONNECTFAIL, PING, RESULT) carries a CORR
\* annotation: the one of the message it answers when that message has one,
\* and a newly minted id otherwise, whatever the order in which the requests
\* of the connections are handled, under the thread pool and the multiplexed
\* server.
C24_RepliesCarryCorr ==
    (handled # NoMessage /\ handled.msg.type \in {"CONNECT", "INVOKE", "PING"}) =>
        \A i \in DOMAIN handled.sent :
           LET ann == handled.sent[i].annotations
           IN  /\ "CORR" \in DOMAIN ann
               /\ ann["CORR"] = IF handled.msg.corr # "none" THEN handled.msg.corr
                                ELSE Minted

\* ------------------------------------------------------ method call claims

\* a normal call, not a batch, reached the method of the registered object
\* and the method ran in the worker
MethodCalled(method) ==
    /\ handled.kind = "request"
    /\ handled.msg.type = "INVOKE"
    /\ "BATCH" \notin handled.msg.flags
    /\ handled.msg.serializer_id \in serializer_ids
    /\ handled.msg.fault = "none"
    /\ handled.msg.objId \in registered
    /\ handled.msg.method = method
    /\ ~(Oneway(handled.msg) /\ reqCfg.ONEWAY_THREADED)

\* the single message of the handler is the RESULT with the EXCEPTION flag
\* that carries the exception xv
ExceptionReported(xv) ==
    /\ Answered("RESULT")
    /\ "EXCEPTION" \in handled.sent[1].flags
    /\ handled.sent[1].data = xv

\* C21: when a method tagged callback raises in a normal call, the exception
\* is sent to the client as a RESULT with the EXCEPTION flag, unless the call
\* is oneway, and is raised again out of handleRequest; when a method without
\* the tag raises an exception that is no communication or security error, it
\* is sent to the client and handleRequest returns normally.
C21_CallbackErrorsReraised ==
    /\ MethodCalled("cb") =>
          /\ ~Oneway(handled.msg) => ExceptionReported(Raises("cb"))
          /\ handled.res = Raised(Raises("cb").cls)
    /\ MethodCalled("fail") =>
          /\ ~Oneway(handled.msg) => ExceptionReported(Raises("fail"))
          /\ handled.res = Ok("None")

\* an INVOKE reached the lookup of "private", a method that is not among the
\* exposed members of the class of the target: as the method of a normal
\* call, or as an item of a batch that no failing item precedes
UnexposedRequested ==
    /\ handled.kind = "request"
    /\ handled.msg.type = "INVOKE"
    /\ handled.msg.serializer_id \in serializer_ids
    /\ handled.msg.fault = "none"
    /\ handled.msg.objId \in registered
    /\ IF "BATCH" \in handled.msg.flags
       THEN \E i \in DOMAIN handled.msg.vargs :
               /\ handled.msg.vargs[i] = "private"
               /\ \A j \in 1..(i - 1) : Raises(handled.msg.vargs[j]) = NoExc
       ELSE handled.msg.method = "private"

\* C22: no INVOKE, normal or batch, runs a method that is not among the
\* exposed methods of the class of the target; the request fails with an
\* AttributeError that is reported to the client.
C22_UnexposedNeverRuns ==
    /\ handled # NoMessage => ~Did("call:private")
    /\ UnexposedRequested =>
          /\ handled.x.cls = "AttributeError"
          /\ ExceptionReported(handled.x)

\* a normal call of __getattr__ or __setattr__ reached the registered object
AttributeRequested ==
    /\ handled.kind = "request"
    /\ handled.msg.type = "INVOKE"
    /\ "BATCH" \notin handled.msg.flags
    /\ handled.msg.serializer_id \in serializer_ids
    /\ handled.msg.fault = "none"
    /\ handled.msg.objId \in registered
    /\ handled.msg.method \in {"__getattr__", "__setattr__"}

\* C23: an INVOKE of __getattr__ or __setattr__ runs the getter or the setter
\* of the property only when the requested name is in the attrs set of the
\* exposed members of the class; for every other name it fails with
\* AttributeError and neither accessor runs.
C23_OnlyExposedAttributes ==
    AttributeRequested =>
        LET propname == handled.msg.vargs[1]
        IN  /\ Did("call:" \o propname) => propname \in attrs
            /\ propname \notin attrs =>
                  /\ handled.x.cls = "AttributeError"
                  /\ ~Did("call:" \o propname)

\* C29: when the result of a method is a lazy view of a dict and
\* ITER_STREAMING is enabled, the daemon refuses it: no stream entry holds it,
\* it is not serialized as ordinary data, and the call fails with a
\* ProtocolError that is reported to the client.
C29_LazyViewRefused ==
    /\ \A sid \in DOMAIN streaming_responses :
          streaming_responses[sid].stream # DictView
    /\ (MethodCalled("view") /\ ~Oneway(handled.msg) /\ reqCfg.ITER_STREAMING) =>
          /\ ~Did("serializeData")
          /\ handled.x.cls = "ProtocolError"
          /\ ExceptionReported(handled.x)

\* an INVOKE with the ONEWAY flag, not a batch, for a method the registered
\* object exposes was handled while ONEWAY_THREADED is enabled
OnewayThreadedHandled ==
    /\ handled.kind = "request"
    /\ handled.msg.type = "INVOKE"
    /\ handled.msg.flags = {"ONEWAY"}
    /\ handled.msg.serializer_id \in serializer_ids
    /\ handled.msg.fault = "none"
    /\ handled.msg.objId \in registered
    /\ handled.msg.method \in Methods \ {"private"}
    /\ reqCfg.ONEWAY_THREADED

\* C30: for an INVOKE with the ONEWAY flag while ONEWAY_THREADED is enabled,
\* handleRequest hands the method to a task of its own and returns without
\* running the method and without a reply; the task runs the method with the
\* context of that request.
C30_OnewayRunsInTask ==
    OnewayThreadedHandled =>
        /\ Did("thread:" \o handled.msg.method)
        /\ ~Did("call:" \o handled.msg.method)
        /\ handled.x = NoExc
        /\ handled.sent = << >>
        /\ handled.res = Ok("None")

\* C31: after any register and unregister calls, every entry of the registry
\* other than the one of the reserved id maps its id to a target whose _pyroId
\* is that id and whose _pyroDaemon is this daemon.
C31_EntriesMatchStamps ==
    \A id \in DOMAIN objectsById \ {DAEMON_NAME} :
       /\ pyroId[objectsById[id]] = id
       /\ pyroDaemon[objectsById[id]]

\* C32: the reply to a CONNECT or INVOKE whose serializer id is outside the
\* accept-list (a CONNECTFAIL or an exception RESULT) never carries the
\* rejected serializer id, so its payload is not encoded with that serializer.
C32_RejectedSerializerNotUsed ==
    RejectedSerializer =>
        \A i \in DOMAIN handled.sent :
           handled.sent[i].serializer_id # handled.msg.serializer_id

=============================================================================
